---- MODULE Spec2Model ----
(***************************************************************************)
(* Resume text normalization and section model pipeline of ZubeResume-AI.  *)
(*                                                                         *)
(* A text is a sequence of one-character strings; the characters that are  *)
(* not ASCII are written by name: "bullet" is U+2022, "circle" is U+25CF,  *)
(* "emdash" is U+2014 and "endash" is U+2013.  A list of lines is a        *)
(* sequence of texts.                                                      *)
(*                                                                         *)
(* The module holds one specification per group of operations; the         *)
(* variables of the groups a specification does not run stay idle.         *)
(*   SpecRepair     the spacing repair passes (TextProcessor,              *)
(*                  FileGenerator._basic_formatting_fixes)                 *)
(*   SpecSections   FileGenerator: _ensure_proper_formatting followed by   *)
(*                  _parse_resume_sections, one scanned line per step      *)
(*   SpecDedup      AdvancedFileGenerator: the duplicate remover           *)
(*                  _remove_duplicate_content_aggressive with              *)
(*                  _deduplicate_project_content, one scanned line per     *)
(*                  step                                                   *)
(*   SpecHeader     AdvancedFileGenerator._restructure_header, one scanned *)
(*                  line per step                                          *)
(*   SpecStrip      the removal of the preamble at the top of the three    *)
(*                  clean-up entry points                                  *)
(*   SpecFormatter  FileGenerator._clean_section_content on a list of      *)
(*                  content lines under a section type                     *)
(*   SpecStages     each normalization stage on its own, on the same       *)
(*                  texts: TextProcessor.clean_and_structure_text,         *)
(*                  _restructure_header, the duplicate remover and the     *)
(*                  FileGenerator section parser; steps counts the steps   *)
(*                  a stage has taken                                      *)
(*   SpecRender     FileGenerator.generate_docx / generate_pdf from the    *)
(*                  text to the saved document: the section parser, then   *)
(*                  one renderer call or loop iteration per step           *)
(*   SpecAgents     ResumeAgentSystem.process_resume: the supervisor, the  *)
(*                  router and the three agents, one graph node per step;  *)
(*                  SpecAgentsFair adds that a ready node is run           *)
(***************************************************************************)
EXTENDS Integers, Sequences, FiniteSets, TLC

VARIABLES
    rin,        \* repair: the text handed to the repair pass
    rkind,      \* repair: which repair pass is applied to it
    rout,       \* repair: the results of the successive applications
    spc,        \* sections: position in generate_docx / generate_pdf
    converters, \* sections: whether __init__ built the text processor and
                \*           the markdown converter
    given_text,           \* sections: the text handed to generate_docx
    resume_text,          \* sections: the text being processed
    lines,                \* sections: _parse_resume_sections' lines
    li,                   \* sections: index of the next line to scan
    current_section,      \* sections: name of the open bucket
    current_content,      \* sections: lines of the open bucket
    found_first_section,  \* sections: a header has been matched
    sections,             \* sections: the mapping built, in insertion order
    dedup_text,           \* dedup: the text handed to the duplicate remover
    dlines,               \* dedup: its lines
    di,                   \* dedup: index of the next line to scan
    dpc,                  \* dedup: position in the duplicate remover
    processed_lines,      \* dedup: the output lines so far
    role_tech_lines,      \* dedup: role/tech lines kept after a title
    all_content_lines,    \* dedup: the content pool of the current project
    content_blocks,       \* dedup: raw blocks of the last pool deduplicated
    unique_blocks,        \* dedup: blocks retained from that pool
    deduplicated_content, \* dedup: lines returned for that pool
    dedup_result,         \* dedup: the text returned
    ratio,                \* dedup: the scores fuzz.ratio has given, by pair
    header_source,          \* header: the text handed to _restructure_header
    hlines,               \* header: its lines
    hi,                   \* header: index (from 0) of the next line to scan
    hpc,                  \* header: position in _restructure_header
    restructured_lines,   \* header: the output lines so far
    header_processed,     \* header: the header has been emitted or passed
    job_titles,           \* header: titles collected
    contact_items,        \* header: contact items collected
    header_result,        \* header: the text returned
    clean_source,         \* clean: the text handed to clean_and_structure_text
    clean_text,           \* clean: the text after the passes run so far
    cpc,                  \* clean: position in clean_and_structure_text
    spacing_lines,        \* clean: lines of _fix_paragraph_spacing_enhanced
    si,                   \* clean: its loop index (from 0)
    spaced_lines,         \* clean: its final_lines
    clean_result,         \* clean: the text returned
    apc,                  \* agents: position in process_resume / the graph
    original_resume,      \* agents: AgentState fields
    content_tailored,
    formatting_applied,
    document_ready,
    current_agent,
    iteration_count,
    final_output,
    agent_result,         \* agents: what process_resume returned
    entries,              \* agents: how often each node has been entered
    render_kind,          \* render: "docx" or "pdf", the generator that runs
    story,                \* render: what has been put into the document
    render_pos,           \* render: position of the section loop at hand
    steps                 \* the number of steps the running stage has taken

repairVars == <<rin, rkind, rout>>
sectionsVars ==
    <<spc, converters, given_text, resume_text, lines, li, current_section,
      current_content, found_first_section, sections>>
dedupVars ==
    <<dedup_text, dlines, di, dpc, processed_lines, role_tech_lines,
      all_content_lines, content_blocks, unique_blocks, deduplicated_content,
      dedup_result, ratio>>
headerVars ==
    <<header_source, hlines, hi, hpc, restructured_lines, header_processed,
      job_titles, contact_items, header_result>>
cleanVars ==
    <<clean_source, clean_text, cpc, spacing_lines, si, spaced_lines,
      clean_result>>
agentVars ==
    <<apc, original_resume, content_tailored, formatting_applied,
      document_ready, current_agent, iteration_count, final_output,
      agent_result, entries>>
renderVars == <<render_kind, story, render_pos>>
vars ==
    <<repairVars, sectionsVars, dedupVars, headerVars, cleanVars, agentVars,
      renderVars, steps>>
notRepairVars   ==
    <<sectionsVars, dedupVars, headerVars, cleanVars, agentVars, renderVars,
      steps>>
notSectionsVars ==
    <<repairVars, dedupVars, headerVars, cleanVars, agentVars, renderVars>>
notDedupVars    ==
    <<repairVars, sectionsVars, headerVars, cleanVars, agentVars, renderVars>>
notHeaderVars   ==
    <<repairVars, sectionsVars, dedupVars, cleanVars, agentVars, renderVars>>
notCleanVars    ==
    <<repairVars, sectionsVars, dedupVars, headerVars, agentVars, renderVars>>
notAgentVars    ==
    <<repairVars, sectionsVars, dedupVars, headerVars, cleanVars, renderVars,
      steps>>
notRenderVars   ==
    <<repairVars, dedupVars, headerVars, cleanVars, agentVars, steps>>

RenderIdle ==
    /\ render_kind = "idle"
    /\ story = <<>>
    /\ render_pos = 0

RepairIdle ==
    /\ rin = <<>>
    /\ rkind = "idle"
    /\ rout = <<>>

SectionsIdle ==
    /\ spc = "idle"
    /\ converters = TRUE
    /\ given_text = <<>>
    /\ resume_text = <<>>
    /\ lines = <<>>
    /\ li = 0
    /\ current_section = "header"
    /\ current_content = <<>>
    /\ found_first_section = FALSE
    /\ sections = <<>>

DedupIdle ==
    /\ dedup_text = <<>>
    /\ dlines = <<>>
    /\ di = 0
    /\ dpc = "idle"
    /\ processed_lines = <<>>
    /\ role_tech_lines = <<>>
    /\ all_content_lines = <<>>
    /\ content_blocks = <<>>
    /\ unique_blocks = <<>>
    /\ deduplicated_content = <<>>
    /\ dedup_result = <<>>
    /\ ratio = <<>>

HeaderIdle ==
    /\ header_source = <<>>
    /\ hlines = <<>>
    /\ hi = 0
    /\ hpc = "idle"
    /\ restructured_lines = <<>>
    /\ header_processed = FALSE
    /\ job_titles = <<>>
    /\ contact_items = <<>>
    /\ header_result = <<>>

CleanIdle ==
    /\ clean_source = <<>>
    /\ clean_text = <<>>
    /\ cpc = "idle"
    /\ spacing_lines = <<>>
    /\ si = 0
    /\ spaced_lines = <<>>
    /\ clean_result = <<>>

\* final_output = {}
no_output == [tailored_resume |-> "", status |-> "", method |-> ""]

\* the nodes of the graph
Nodes == {"supervisor", "content_agent", "formatting_agent", "document_agent"}

AgentIdle ==
    /\ apc = "idle"
    /\ original_resume = ""
    /\ content_tailored = ""
    /\ formatting_applied = ""
    /\ document_ready = ""
    /\ current_agent = ""
    /\ iteration_count = 0
    /\ final_output = no_output
    /\ agent_result = no_output
    /\ entries = [n \in Nodes |-> 0]

(***************************************************************************)
(* Characters                                                              *)
(***************************************************************************)
LowerSeq ==
    <<"a","b","c","d","e","f","g","h","i","j","k","l","m",
      "n","o","p","q","r","s","t","u","v","w","x","y","z">>
UpperSeq ==
    <<"A","B","C","D","E","F","G","H","I","J","K","L","M",
      "N","O","P","Q","R","S","T","U","V","W","X","Y","Z">>
Lower == {LowerSeq[i] : i \in 1..26}
Upper == {UpperSeq[i] : i \in 1..26}
Letter == Lower \cup Upper
Digit == {"0","1","2","3","4","5","6","7","8","9"}

\* All texts over an alphabet, of length at most n
Texts(alphabet, n) ==
    UNION {[1..k -> alphabet] : k \in 0..n}

(***************************************************************************)
(* Python string operations                                                *)
(***************************************************************************)
Whitespace == {" ", "\t", "\n", "\r"}

Min(S) == CHOOSE x \in S : \A y \in S : x <= y
Max(S) == CHOOSE x \in S : \A y \in S : x >= y

\* str.upper and str.lower, one character
upper_char(c) ==
    IF c \in Lower THEN UpperSeq[CHOOSE i \in 1..26 : LowerSeq[i] = c] ELSE c
lower_char(c) ==
    IF c \in Upper THEN LowerSeq[CHOOSE i \in 1..26 : UpperSeq[i] = c] ELSE c
upper(s) == [i \in 1..Len(s) |-> upper_char(s[i])]
lower(s) == [i \in 1..Len(s) |-> lower_char(s[i])]

\* str.strip
lstrip(s) ==
    LET kept == {i \in 1..Len(s) : s[i] \notin Whitespace} IN
    IF kept = {} THEN <<>> ELSE SubSeq(s, Min(kept), Len(s))
rstrip(s) ==
    LET kept == {i \in 1..Len(s) : s[i] \notin Whitespace} IN
    IF kept = {} THEN <<>> ELSE SubSeq(s, 1, Max(kept))
strip(s) == rstrip(lstrip(s))

\* s.startswith(p), s.endswith(p), p in s
startswith(s, p) ==
    Len(s) >= Len(p) /\ SubSeq(s, 1, Len(p)) = p
endswith(s, p) ==
    Len(s) >= Len(p) /\ SubSeq(s, Len(s) - Len(p) + 1, Len(s)) = p
\* s.find(sub), counted from 1; 0 when sub does not occur
find(s, sub) ==
    LET at == {i \in 1..(Len(s) - Len(sub) + 1) :
                   SubSeq(s, i, i + Len(sub) - 1) = sub}
    IN  IF at = {} THEN 0 ELSE Min(at)
contains(s, sub) == find(s, sub) # 0

\* s.split(sep) for a non-empty separator
RECURSIVE split(_, _)
split(s, sep) ==
    LET i == find(s, sep) IN
    IF i = 0 THEN <<s>>
    ELSE <<SubSeq(s, 1, i - 1)>> \o split(SubSeq(s, i + Len(sep), Len(s)), sep)

\* sep.join(parts)
RECURSIVE join(_, _)
join(sep, parts) ==
    IF parts = <<>> THEN <<>>
    ELSE IF Len(parts) = 1 THEN parts[1]
    ELSE parts[1] \o sep \o join(sep, Tail(parts))

\* s.replace(old, new)
replace(s, old, new) == join(new, split(s, old))

\* re.sub(r'\s+', ' ', s)
RECURSIVE re_sub_whitespace(_)
re_sub_whitespace(s) ==
    LET matches == {i \in 1..Len(s) : s[i] \in Whitespace} IN
    IF matches = {} THEN s
    ELSE LET i == Min(matches)
             j == Max({k \in i..Len(s) : \A m \in i..k : s[m] \in Whitespace})
         IN  SubSeq(s, 1, i - 1) \o <<" ">>
                 \o re_sub_whitespace(SubSeq(s, j + 1, Len(s)))

\* the end of the match of r'\n\s*\n' that starts at position i: the last
\* newline of the run of whitespace that follows the newline at i; 0 when
\* there is no match at i
blank_lines_end(s, i) ==
    LET run == {k \in i..Len(s) : \A m \in (i + 1)..k : s[m] \in Whitespace}
        nls == {k \in run : k > i /\ s[k] = "\n"}
    IN  IF s[i] = "\n" /\ nls # {} THEN Max(nls) ELSE 0

\* re.sub(r'\n\s*\n', '\n\n', s)
RECURSIVE re_sub_blank_lines(_)
re_sub_blank_lines(s) ==
    LET matches == {i \in 1..Len(s) : blank_lines_end(s, i) # 0} IN
    IF matches = {} THEN s
    ELSE LET i == Min(matches) IN
         SubSeq(s, 1, i - 1) \o <<"\n", "\n">>
             \o re_sub_blank_lines(SubSeq(s, blank_lines_end(s, i) + 1, Len(s)))


(***************************************************************************)
(* Regular expression substitution, as re.sub does it: the text is scanned *)
(* left to right, the leftmost match is replaced and the scan resumes      *)
(* after the match, so that matches never overlap.                         *)
(***************************************************************************)
RECURSIVE re_sub_pair(_, _, _, _, _)
\* re.sub(r'(A)mid(B)', r'\1 rep \2', s) for character classes A and B
re_sub_pair(s, A, mid, B, rep) ==
    LET n == Len(mid) + 2
        matches == {i \in 1..(Len(s) - n + 1) :
                       /\ s[i] \in A
                       /\ SubSeq(s, i + 1, i + n - 2) = mid
                       /\ s[i + n - 1] \in B}
    IN  IF matches = {} THEN s
        ELSE LET i == Min(matches) IN
             SubSeq(s, 1, i) \o rep \o <<s[i + n - 1]>>
                 \o re_sub_pair(SubSeq(s, i + n, Len(s)), A, mid, B, rep)

RECURSIVE re_sub_spaces(_)
\* re.sub(r'  +', ' ', s): a run of two or more spaces becomes one space
re_sub_spaces(s) ==
    LET matches == {i \in 1..(Len(s) - 1) : s[i] = " " /\ s[i + 1] = " "} IN
    IF matches = {} THEN s
    ELSE LET i == Min(matches)
             j == Max({k \in i..Len(s) : \A m \in i..k : s[m] = " "})
         IN  SubSeq(s, 1, i) \o re_sub_spaces(SubSeq(s, j + 1, Len(s)))

(***************************************************************************)
(* TextProcessor: the spacing patterns and the repair pass                 *)
(***************************************************************************)
comma_fix(s)   == re_sub_pair(s, Letter, <<",">>, Letter, <<",", " ">>)
period_fix(s)  == re_sub_pair(s, Lower, <<".">>, Upper, <<".", " ">>)
pipe_fix(s)    == re_sub_pair(s, Letter, <<"|">>, Letter, <<" ", "|", " ">>)
colon_fix(s)   == re_sub_pair(s, Letter, <<":">>, Letter, <<":", " ">>)
number_fix(s)  == re_sub_pair(s, Digit, <<>>, Letter, <<" ">>)
\* mutant: the replacement leaves out the space after the percent sign
percent_fix_jammed(s) == re_sub_pair(s, Digit, <<"%">>, Letter, <<"%">>)
percent_fix(s) == re_sub_pair(s, Digit, <<"%">>, Letter, <<"%", " ">>)
camel_case_fix(s) == re_sub_pair(s, Lower, <<>>, Upper, <<" ">>)

\* the substitutions of _fix_jamming_issues that insert spaces, in order
spacing_rules(text) ==
    LET t1 == comma_fix(text)
        t2 == period_fix(t1)
        t3 == pipe_fix(t2)
        t4 == colon_fix(t3)
        t5 == number_fix(t4)
        t6 == percent_fix(t5)
    IN  camel_case_fix(t6)

\* "Fix multiple spaces" left out
multiple_spaces_kept(text) == text

\* "Fix multiple spaces"
multiple_spaces_fix(text) == re_sub_spaces(text)

_fix_jamming_issues(text) == multiple_spaces_fix(spacing_rules(text))

(***************************************************************************)
(* TextProcessor: the patterns of __init__ as predicates on a line         *)
(***************************************************************************)
WordChar == Letter \cup Digit \cup {"_"}

\* \b at the gap before position p
word_boundary(s, p) ==
    (p - 1 >= 1 /\ p - 1 <= Len(s) /\ s[p - 1] \in WordChar)
        # (p >= 1 /\ p <= Len(s) /\ s[p] \in WordChar)

all_in(s, a, b, chars) == \A k \in a..b : s[k] \in chars

\* the first position from i on that holds no whitespace (Len(s) + 1 if none)
skip_ws(s, i) ==
    Min({k \in i..(Len(s) + 1) : k = Len(s) + 1 \/ s[k] \notin Whitespace})

\* self.section_headers.match(line): r'^[A-Z\s]+:?\s*$'
section_headers_match(line) ==
    \E k \in 1..Len(line) :
        /\ all_in(line, 1, k, Upper \cup Whitespace)
        /\ \/ all_in(line, k + 1, Len(line), Whitespace)
           \/ /\ k + 1 <= Len(line) /\ line[k + 1] = ":"
              /\ all_in(line, k + 2, Len(line), Whitespace)

\* self.email_pattern.search(line):
\* r'\b[A-Za-z0-9._%+-]+@[A-Za-z0-9.-]+\.[A-Z|a-z]{2,}\b'
email_search(line) ==
    \E at \in 1..Len(line) :
        /\ line[at] = "@"
        /\ \E a \in 1..(at - 1) :
              /\ all_in(line, a, at - 1, Letter \cup Digit \cup {".", "_", "%", "+", "-"})
              /\ word_boundary(line, a)
        /\ \E d \in (at + 2)..Len(line) :
              /\ line[d] = "."
              /\ all_in(line, at + 1, d - 1, Letter \cup Digit \cup {".", "-"})
              /\ \E e \in (d + 2)..Len(line) :
                    /\ all_in(line, d + 1, e, Letter \cup {"|"})
                    /\ word_boundary(line, e + 1)

\* self.phone_pattern.search(line):
\* r'(\+?\d{1,3}[-.\s]?)?[\(\s]?\d{3}[\)\s-]?\d{3}[-.\s]?\d{4}'
phone_search(line) ==
    \E p \in 1..Len(line) :
        /\ p + 2 <= Len(line) /\ all_in(line, p, p + 2, Digit)
        /\ \E q \in {p + 3} \cup {k \in {p + 4} : p + 3 <= Len(line)
                                   /\ line[p + 3] \in Whitespace \cup {")", "-"}} :
              /\ q + 2 <= Len(line) /\ all_in(line, q, q + 2, Digit)
              /\ \E r \in {q + 3} \cup {k \in {q + 4} : q + 3 <= Len(line)
                                   /\ line[q + 3] \in Whitespace \cup {"-", "."}} :
                    r + 3 <= Len(line) /\ all_in(line, r, r + 3, Digit)

\* a prefix occurs in the line, followed by a character that is not whitespace
followed_prefix(line, prefix) ==
    \E i \in 1..(Len(line) - Len(prefix)) :
        /\ SubSeq(line, i, i + Len(prefix) - 1) = prefix
        /\ line[i + Len(prefix)] \notin Whitespace

\* self.url_pattern.search(line):
\* r'https?://[^\s]+|www\.[^\s]+|linkedin\.com/[^\s]+'
url_search(line) ==
    \/ followed_prefix(line, <<"h","t","t","p",":","/","/">>)
    \/ followed_prefix(line, <<"h","t","t","p","s",":","/","/">>)
    \/ followed_prefix(line, <<"w","w","w",".">>)
    \/ followed_prefix(line, <<"l","i","n","k","e","d","i","n",".","c","o","m","/">>)

achievement_words ==
    { <<"d","e","v","e","l","o","p","e","d">>,
      <<"i","m","p","l","e","m","e","n","t","e","d">>,
      <<"l","e","d">>,
      <<"m","a","n","a","g","e","d">>,
      <<"c","r","e","a","t","e","d">>,
      <<"b","u","i","l","t">>,
      <<"d","e","s","i","g","n","e","d">>,
      <<"i","m","p","r","o","v","e","d">>,
      <<"i","n","c","r","e","a","s","e","d">>,
      <<"r","e","d","u","c","e","d">>,
      <<"c","o","l","l","a","b","o","r","a","t","e","d">>,
      <<"a","c","h","i","e","v","e","d">>,
      <<"d","e","l","i","v","e","r","e","d">>,
      <<"o","p","t","i","m","i","z","e","d">>,
      <<"s","t","r","e","a","m","l","i","n","e","d">>,
      <<"e","x","e","c","u","t","e","d">> }

\* self.achievement_starters.match(line)
achievement_starters_match(line) ==
    \E w \in achievement_words : startswith(lower(line), w)

role_pattern_words ==
    { <<"e","n","g","i","n","e","e","r">>,
      <<"d","e","v","e","l","o","p","e","r">>,
      <<"a","n","a","l","y","s","t">>,
      <<"m","a","n","a","g","e","r">>,
      <<"l","e","a","d">>,
      <<"s","p","e","c","i","a","l","i","s","t">>,
      <<"d","i","r","e","c","t","o","r">>,
      <<"c","o","o","r","d","i","n","a","t","o","r">> }

\* self.role_patterns.search(line)
role_patterns_search(line) ==
    \E w \in role_pattern_words : contains(lower(line), w)

BulletChars == {"bullet", "-", "*", "circle"}

(***************************************************************************)
(* TextProcessor: the passes of clean_and_structure_text                   *)
(***************************************************************************)
\* re.sub(r'[ \t]+', ' ', s)
RECURSIVE re_sub_hspace(_)
re_sub_hspace(s) ==
    LET matches == {i \in 1..Len(s) : s[i] \in {" ", "\t"}} IN
    IF matches = {} THEN s
    ELSE LET i == Min(matches)
             j == Max({k \in i..Len(s) : \A m \in i..k : s[m] \in {" ", "\t"}})
         IN  SubSeq(s, 1, i - 1) \o <<" ">>
                 \o re_sub_hspace(SubSeq(s, j + 1, Len(s)))

\* re.sub(r'([.!?])\s*([A-Z])', r'\1 \2', s)
RECURSIVE sentence_spacing(_)
sentence_spacing(s) ==
    LET matches == {i \in 1..Len(s) :
                      /\ s[i] \in {".", "!", "?"}
                      /\ skip_ws(s, i + 1) <= Len(s)
                      /\ s[skip_ws(s, i + 1)] \in Upper}
    IN  IF matches = {} THEN s
        ELSE LET i == Min(matches)
                 e == skip_ws(s, i + 1)
             IN  SubSeq(s, 1, i) \o <<" ", s[e]>>
                     \o sentence_spacing(SubSeq(s, e + 1, Len(s)))

\* re.sub(r'\s*\|\s*', ' | ', s)
RECURSIVE normalize_pipes(_)
normalize_pipes(s) ==
    LET matches == {i \in 1..Len(s) :
                      skip_ws(s, i) <= Len(s) /\ s[skip_ws(s, i)] = "|"}
    IN  IF matches = {} THEN s
        ELSE LET i == Min(matches)
                 e == skip_ws(s, skip_ws(s, i) + 1)
             IN  SubSeq(s, 1, i - 1) \o <<" ", "|", " ">>
                     \o normalize_pipes(SubSeq(s, e, Len(s)))

\* the literal the second replace of "Fix common encoding issues" looks for
quote_literal == <<","," ","'","\"","'",")",".","r","e","p","l","a","c","e","(">>

clean_line(line) ==
    IF strip(line) # <<>> THEN re_sub_hspace(strip(line)) ELSE <<>>

_basic_text_cleaning(text) ==
    LET t1 == replace(replace(text, <<"\r", "\n">>, <<"\n">>), <<"\r">>, <<"\n">>)
        ls == split(t1, <<"\n">>)
        t2 == join(<<"\n">>, [k \in 1..Len(ls) |-> clean_line(ls[k])])
        t3 == replace(t2, quote_literal, <<"\"">>)
        t4 == replace(replace(t3, <<"endash">>, <<"-">>), <<"emdash">>, <<" ", "-", " ">>)
    IN  strip(sentence_spacing(t4))

\* self.tokenizer is None: __init__ never builds it
_process_with_hf_tokenizer(text) == text

section_keywords ==
    { <<"S","U","M","M","A","R","Y">>,
      <<"P","R","O","F","E","S","S","I","O","N","A","L"," ","S","U","M","M","A","R","Y">>,
      <<"O","B","J","E","C","T","I","V","E">>,
      <<"P","R","O","F","I","L","E">>,
      <<"S","K","I","L","L","S">>,
      <<"T","E","C","H","N","I","C","A","L"," ","S","K","I","L","L","S">>,
      <<"C","O","R","E"," ","C","O","M","P","E","T","E","N","C","I","E","S">>,
      <<"T","E","C","H","N","O","L","O","G","I","E","S">>,
      <<"E","X","P","E","R","I","E","N","C","E">>,
      <<"W","O","R","K"," ","E","X","P","E","R","I","E","N","C","E">>,
      <<"P","R","O","F","E","S","S","I","O","N","A","L"," ","E","X","P","E","R","I","E","N","C","E">>,
      <<"E","D","U","C","A","T","I","O","N">>,
      <<"A","C","A","D","E","M","I","C"," ","B","A","C","K","G","R","O","U","N","D">>,
      <<"Q","U","A","L","I","F","I","C","A","T","I","O","N","S">>,
      <<"P","R","O","J","E","C","T","S">>,
      <<"K","E","Y"," ","P","R","O","J","E","C","T","S">>,
      <<"C","E","R","T","I","F","I","C","A","T","I","O","N","S">>,
      <<"A","C","H","I","E","V","E","M","E","N","T","S">> }

RECURSIVE structure_lines(_, _)
structure_lines(ls, structured_lines) ==
    IF ls = <<>> THEN structured_lines
    ELSE LET line == Head(ls)
             line_upper == replace(upper(strip(line)), <<":">>, <<>>)
             spaced == IF structured_lines # <<>>
                          /\ structured_lines[Len(structured_lines)] # <<>>
                       THEN Append(structured_lines, <<>>)
                       ELSE structured_lines
         IN  IF line_upper \in section_keywords
             THEN structure_lines(Tail(ls), spaced \o <<strip(line), <<>> >>)
             ELSE structure_lines(Tail(ls), Append(structured_lines, line))

_structure_sections(text) ==
    join(<<"\n">>, structure_lines(split(text, <<"\n">>), <<>>))

bullet_indicators ==
    { <<"a","c","h","i","e","v","i","n","g">>,
      <<"r","e","s","u","l","t","i","n","g">>,
      <<"%">>,
      <<"u","s","e","r","s">>,
      <<"$">>,
      <<"m","i","l","l","i","o","n">>,
      <<"i","n","c","r","e","a","s","e","d">>,
      <<"d","e","c","r","e","a","s","e","d">>,
      <<"i","m","p","r","o","v","e","d">>,
      <<"r","e","d","u","c","e","d">>,
      <<"e","n","h","a","n","c","e","d">> }

bullet_min_len == 15

\* the lines one line of the text gives in _format_bullet_points_enhanced
format_bullet_line(raw) ==
    LET line == strip(raw)
        p == skip_ws(line, 1)
        clean == strip(SubSeq(line, skip_ws(line, p + 1), Len(line)))
    IN  IF line = <<>> THEN << <<>> >>
        ELSE IF line[p] \in BulletChars
             THEN IF clean # <<>> THEN << <<"bullet", " ">> \o clean >> ELSE <<>>
             ELSE IF /\ ~section_headers_match(line)
                     /\ ~email_search(line)
                     /\ ~phone_search(line)
                     /\ ~url_search(line)
                     /\ Len(line) > bullet_min_len
                     /\ \/ achievement_starters_match(line)
                        \/ \E indicator \in bullet_indicators :
                               contains(lower(line), indicator)
                  THEN << <<"bullet", " ">> \o line >>
                  ELSE <<line>>

RECURSIVE format_bullet_lines(_)
format_bullet_lines(ls) ==
    IF ls = <<>> THEN <<>>
    ELSE format_bullet_line(Head(ls)) \o format_bullet_lines(Tail(ls))

_format_bullet_points_enhanced(text) ==
    join(<<"\n">>, format_bullet_lines(split(text, <<"\n">>)))

\* i += 1
next_index(i) == i + 1

\* one iteration of the loop of _fix_paragraph_spacing_enhanced on the line
\* at index i (from 0): the new final_lines
needs_spacing(next_line) ==
    \/ section_headers_match(next_line)
    \/ (next_line # <<>> /\ startswith(next_line, <<"bullet">>))
    \/ (next_line # <<>> /\ role_patterns_search(next_line))

paragraph_step(ls, i, final_lines) ==
    LET line == strip(ls[i + 1]) IN
        IF line = <<>>
        THEN IF final_lines # <<>> /\ final_lines[Len(final_lines)] # <<>>
             THEN Append(final_lines, <<>>)
             ELSE final_lines
        ELSE IF i + 1 < Len(ls) /\ needs_spacing(strip(ls[i + 2]))
             THEN final_lines \o <<line, <<>> >>
             ELSE Append(final_lines, line)

RECURSIVE paragraph_loop(_, _, _)
paragraph_loop(ls, i, final_lines) ==
    IF i < Len(ls)
    THEN paragraph_loop(ls, next_index(i), paragraph_step(ls, i, final_lines))
    ELSE final_lines

_fix_paragraph_spacing_enhanced(text) ==
    join(<<"\n">>, paragraph_loop(split(text, <<"\n">>), 0, <<>>))

max_blank_lines == 1

RECURSIVE cleanup_lines(_, _, _)
cleanup_lines(ls, blank_line_count, clean_lines) ==
    IF ls = <<>> THEN clean_lines
    ELSE IF strip(Head(ls)) = <<>>
         THEN cleanup_lines(Tail(ls), blank_line_count + 1,
                            IF blank_line_count + 1 <= max_blank_lines
                            THEN Append(clean_lines, <<>>) ELSE clean_lines)
         ELSE cleanup_lines(Tail(ls), 0,
                            Append(clean_lines, normalize_pipes(strip(Head(ls)))))

\* "Remove leading/trailing blank lines"
trim_blank_lines(clean_lines) ==
    LET kept == {k \in 1..Len(clean_lines) : clean_lines[k] # <<>>} IN
        IF kept = {} THEN <<>> ELSE SubSeq(clean_lines, Min(kept), Max(kept))

_final_cleanup(text) ==
    join(<<"\n">>, trim_blank_lines(cleanup_lines(split(text, <<"\n">>), 0, <<>>)))

clean_and_structure_text(text) ==
    IF text = <<>> THEN <<>>
    ELSE _final_cleanup(
           _fix_paragraph_spacing_enhanced(
             _format_bullet_points_enhanced(
               _structure_sections(
                 _process_with_hf_tokenizer(
                   _basic_text_cleaning(
                     _fix_jamming_issues(text)))))))

(***************************************************************************)
(* FileGenerator: the fallback repair pass                                 *)
(***************************************************************************)
_basic_formatting_fixes(text) ==
    LET t1 == re_sub_pair(text, Letter, <<",">>, Letter, <<",", " ">>)
        t2 == re_sub_pair(t1, Lower, <<".">>, Upper, <<".", " ">>)
        t3 == re_sub_pair(t2, Letter, <<"|">>, Letter, <<" ", "|", " ">>)
        t4 == re_sub_pair(t3, Letter, <<":">>, Letter, <<":", " ">>)
        t5 == re_sub_pair(t4, Digit, <<>>, Letter, <<" ">>)
    IN  re_sub_pair(t5, Digit, <<"%">>, Letter, <<"%", " ">>)

(***************************************************************************)
(* MarkdownConverter                                                       *)
(***************************************************************************)
scaffold_marker ==
    <<"H","e","r","e"," ","i","s"," ","t","h","e"," ","f","i","n","a","l",","," ","d","o","c","u","m","e","n","t","-","r","e","a","d","y"," ","c","o","n","t","e","n","t">>
scaffold_separator ==
    scaffold_marker \o
    <<" ","t","h","a","t"," ","w","i","l","l"," ","g","e","n","e","r","a","t","e"," ","p","e","r","f","e","c","t"," ","f","i","l","e","s",":">>

\* the other two phrases the prefix removal of AdvancedFileGeneratorV2 knows
trailing_marker ==
    <<"T","h","i","s"," ","c","o","n","t","e","n","t"," ","i","s"," ","n","o","w"," ","p","e","r","f","e","c","t","l","y"," ","s","t","r","u","c","t","u","r","e","d">>
files_phrase ==
    <<"t","h","a","t"," ","w","i","l","l"," ","g","e","n","e","r","a","t","e"," ","p","e","r","f","e","c","t"," ","f","i","l","e","s",":">>

\* the prefix removal at the top of convert_to_plain_formatted_text, and
\* the same lines of AdvancedFileGenerator.clean_markdown_text
strip_prefix_converter(markdown_text) ==
    LET parts == split(markdown_text, scaffold_separator)
    IN  IF contains(markdown_text, scaffold_marker) /\ Len(parts) > 1
        THEN strip(parts[2])
        ELSE markdown_text

strip_prefix_v1(text) ==
    LET parts == split(text, scaffold_separator)
    IN  IF contains(text, scaffold_marker) /\ Len(parts) > 1
        THEN strip(parts[2])
        ELSE text

\* the prefix removal at the top of AdvancedFileGeneratorV2.clean_markdown_text
strip_prefix_v2(text) ==
    LET parts == split(text, scaffold_marker)
        after == strip(parts[2])
        cut   == IF contains(after, trailing_marker)
                 THEN strip(split(after, trailing_marker)[1])
                 ELSE after
    IN  IF contains(text, scaffold_marker) /\ Len(parts) > 1
        THEN IF contains(cut, files_phrase)
             THEN strip(split(cut, files_phrase)[2])
             ELSE cut
        ELSE text

\* header_pattern r'^(#{1,6})\s+(.+)$' matched against a stripped line:
\* the number of '#' signs, or 0 when the line is no markdown header
header_level(line) ==
    LET hashes == {k \in 0..Len(line) : \A m \in 1..k : line[m] = "#"}
        k == Max(hashes)
    IN  IF k >= 1 /\ k <= 6 /\ k < Len(line) /\ line[k + 1] \in Whitespace
           /\ lstrip(SubSeq(line, k + 1, Len(line))) # <<>>
        THEN k ELSE 0

header_text(line) ==
    strip(SubSeq(line, header_level(line) + 1, Len(line)))

\* convert_to_structured_content.  A line that is not a header goes through
\* _process_inline_formatting, which calls part.strip() on a FormattedText
\* (it has no such method): the AttributeError is caught by the method's own
\* except clause, which returns the whole text as one plain element.
convert_to_structured_content(markdown_text) ==
    LET ls == [i \in 1..Len(split(markdown_text, <<"\n">>)) |->
                  strip(split(markdown_text, <<"\n">>)[i])]
        nonblank == SelectSeq(ls, LAMBDA l : l # <<>>)
    IN  IF \E i \in 1..Len(nonblank) : header_level(nonblank[i]) = 0
        THEN <<[text |-> markdown_text, is_header |-> FALSE]>>
        ELSE [i \in 1..Len(nonblank) |->
                 [text |-> header_text(nonblank[i]), is_header |-> TRUE]]

RECURSIVE plain_result_lines(_, _)
\* the loop of convert_to_plain_formatted_text over the structured content
plain_result_lines(items, result_lines) ==
    IF items = <<>> THEN result_lines
    ELSE LET item == items[1] IN
         plain_result_lines(Tail(items),
            IF item.is_header
            THEN (IF result_lines # <<>> THEN Append(result_lines, <<>>)
                  ELSE result_lines) \o <<upper(item.text), <<>>>>
            ELSE IF strip(item.text) # <<>>
                 THEN Append(result_lines, item.text)
                 ELSE result_lines)

convert_to_plain_formatted_text(markdown_text) ==
    LET text == strip_prefix_converter(markdown_text)
    IN  join(<<"\n">>, plain_result_lines(convert_to_structured_content(text), <<>>))

(***************************************************************************)
(* FileGenerator._ensure_proper_formatting.  has_converters is FALSE when  *)
(* __init__ caught an exception: text_processor is None and                *)
(* markdown_converter was never set, so that only the basic fixes remain.  *)
(***************************************************************************)
_ensure_proper_formatting(text, has_converters) ==
    IF text = <<>> THEN <<>>
    ELSE IF has_converters THEN convert_to_plain_formatted_text(text)
    ELSE _basic_formatting_fixes(text)

(***************************************************************************)
(* FileGenerator._parse_resume_sections and its helpers                    *)
(***************************************************************************)
section_patterns ==
    <<
     [name |-> "summary", alternatives |->
         <<<<"P","R","O","F","E","S","S","I","O","N","A","L"," ","S","U","M","M","A","R","Y">>,
           <<"S","U","M","M","A","R","Y">>,
           <<"O","B","J","E","C","T","I","V","E">>,
           <<"P","R","O","F","I","L","E">>,
           <<"A","B","O","U","T">>,
           <<"C","A","R","E","E","R"," ","S","U","M","M","A","R","Y">>>>],
     [name |-> "skills", alternatives |->
         <<<<"S","K","I","L","L","S">>,
           <<"T","E","C","H","N","I","C","A","L"," ","S","K","I","L","L","S">>,
           <<"C","O","R","E"," ","C","O","M","P","E","T","E","N","C","I","E","S">>,
           <<"T","E","C","H","N","O","L","O","G","I","E","S">>,
           <<"C","O","R","E"," ","T","E","C","H","N","I","C","A","L"," ","S","K","I","L","L","S">>,
           <<"T","E","C","H","N","I","C","A","L"," ","C","O","M","P","E","T","E","N","C","I","E","S">>>>],
     [name |-> "experience", alternatives |->
         <<<<"E","X","P","E","R","I","E","N","C","E">>,
           <<"W","O","R","K"," ","E","X","P","E","R","I","E","N","C","E">>,
           <<"P","R","O","F","E","S","S","I","O","N","A","L"," ","E","X","P","E","R","I","E","N","C","E">>,
           <<"E","M","P","L","O","Y","M","E","N","T">>,
           <<"P","R","O","J","E","C","T"," ","E","X","P","E","R","I","E","N","C","E">>,
           <<"W","O","R","K"," ","H","I","S","T","O","R","Y">>>>],
     [name |-> "education", alternatives |->
         <<<<"E","D","U","C","A","T","I","O","N">>,
           <<"A","C","A","D","E","M","I","C"," ","B","A","C","K","G","R","O","U","N","D">>,
           <<"Q","U","A","L","I","F","I","C","A","T","I","O","N","S">>,
           <<"A","C","A","D","E","M","I","C"," ","Q","U","A","L","I","F","I","C","A","T","I","O","N","S">>,
           <<"E","D","U","C","A","T","I","O","N","A","L"," ","B","A","C","K","G","R","O","U","N","D">>>>],
     [name |-> "projects", alternatives |->
         <<<<"P","R","O","J","E","C","T","S">>,
           <<"K","E","Y"," ","P","R","O","J","E","C","T","S">>,
           <<"N","O","T","A","B","L","E"," ","P","R","O","J","E","C","T","S">>,
           <<"P","E","R","S","O","N","A","L"," ","P","R","O","J","E","C","T","S">>>>],
     [name |-> "certifications", alternatives |->
         <<<<"C","E","R","T","I","F","I","C","A","T","I","O","N","S">>,
           <<"C","E","R","T","I","F","I","C","A","T","E","S">>,
           <<"P","R","O","F","E","S","S","I","O","N","A","L"," ","C","E","R","T","I","F","I","C","A","T","I","O","N","S">>,
           <<"C","R","E","D","E","N","T","I","A","L","S">>>>],
     [name |-> "achievements", alternatives |->
         <<<<"A","C","H","I","E","V","E","M","E","N","T","S">>,
           <<"A","C","C","O","M","P","L","I","S","H","M","E","N","T","S">>,
           <<"A","W","A","R","D","S">>,
           <<"H","O","N","O","R","S">>,
           <<"R","E","S","E","A","R","C","H"," ","I","N","T","E","R","E","S","T","S">>>>]
    >>

\* re.match(r'(?:A|B|...)\s*:?\s*$', line_upper)
header_tail(rest) ==
    LET r == lstrip(rest) IN
    lstrip(IF r # <<>> /\ r[1] = ":" THEN Tail(r) ELSE r) = <<>>

pattern_matches(p, line_upper) ==
    \E a \in 1..Len(p.alternatives) :
        /\ startswith(line_upper, p.alternatives[a])
        /\ header_tail(SubSeq(line_upper, Len(p.alternatives[a]) + 1, Len(line_upper)))

\* the first pattern of the table that matches, "" when the line is no header
matched_section(line) ==
    LET line_upper == strip(upper(line))
        hits == {k \in 1..Len(section_patterns) :
                    pattern_matches(section_patterns[k], line_upper)}
    IN  IF strip(line) = <<>> \/ hits = {} THEN ""
        ELSE section_patterns[Min(hits)].name

standalone_titles ==
    {<<"D","r",".">>, <<"M","D">>, <<"P","h","D">>, <<"O",".","D">>}

_clean_header_content(content_lines) ==
    LET stripped == [i \in 1..Len(content_lines) |-> strip(content_lines[i])]
        cleaned_lines ==
            SelectSeq(stripped, LAMBDA l : l # <<>> /\ l \notin standalone_titles)
    IN  join(<<"\n">>, cleaned_lines)

summary_min_len == 10
project_long_line == 30

role_words ==
    {<<"e","n","g","i","n","e","e","r">>,
     <<"d","e","v","e","l","o","p","e","r">>,
     <<"a","n","a","l","y","s","t">>,
     <<"m","a","n","a","g","e","r">>,
     <<"l","e","a","d">>,
     <<"s","p","e","c","i","a","l","i","s","t">>}
education_words ==
    {<<"u","n","i","v","e","r","s","i","t","y">>,
     <<"c","o","l","l","e","g","e">>,
     <<"i","n","s","t","i","t","u","t","e">>,
     <<"s","c","h","o","o","l">>,
     <<"b","a","c","h","e","l","o","r">>,
     <<"m","a","s","t","e","r">>,
     <<"p","h","d">>}

starts_with_bullet(line) ==
    line # <<>> /\ line[1] \in {"bullet", "-", "*", "circle"}

\* "if cleaned_lines and cleaned_lines[-1] != '': cleaned_lines.append('')"
space_before(cleaned_lines) ==
    IF cleaned_lines # <<>> /\ cleaned_lines[Len(cleaned_lines)] # <<>>
    THEN Append(cleaned_lines, <<>>)
    ELSE cleaned_lines

is_category(line) ==
    line # <<>> /\ contains(line, <<":">>) /\ ~starts_with_bullet(line)

\* one iteration of the while loop of _clean_section_content: cleaned_lines
\* after the line at index i (counted from 1) has been handled
clean_section_line(content_lines, section_type, i, cleaned_lines) ==
    LET line == strip(content_lines[i])
        has_next == i + 1 <= Len(content_lines)
        next_line == IF has_next THEN strip(content_lines[i + 1]) ELSE <<>>
    IN
    IF line = <<>> THEN space_before(cleaned_lines)
    ELSE IF section_type = "skills" THEN
        IF is_category(line)
        THEN Append(space_before(cleaned_lines), line)
                 \o (IF has_next /\ is_category(next_line) THEN <<<<>>>> ELSE <<>>)
        ELSE Append(cleaned_lines, line)
    ELSE IF section_type = "experience" THEN
        IF line[1] = "circle" \/ contains(line, <<"emdash">>)
        THEN Append(space_before(cleaned_lines), line)
        ELSE IF \E w \in role_words : contains(lower(line), w)
        THEN cleaned_lines \o <<line, <<>>>>
        ELSE Append(cleaned_lines, line)
    ELSE IF section_type = "summary" THEN
        IF Len(line) > summary_min_len
        THEN Append(cleaned_lines, line)
                 \o (IF has_next /\ Len(next_line) > summary_min_len
                        /\ ~endswith(line, <<".">>)
                     THEN <<<<>>>> ELSE <<>>)
        ELSE cleaned_lines
    ELSE IF section_type \in {"achievements", "certifications", "projects"} THEN
        LET bulleted ==
                IF ~starts_with_bullet(line)
                   /\ section_type \in {"achievements", "certifications"}
                THEN <<"bullet", " ">> \o line
                ELSE line
        IN  IF bulleted[1] = "circle"
               \/ (section_type = "projects" /\ Len(bulleted) > project_long_line)
            THEN Append(space_before(cleaned_lines), bulleted)
            ELSE Append(cleaned_lines, bulleted)
    ELSE IF section_type = "education" THEN
        IF \E w \in education_words : contains(lower(line), w)
        THEN Append(space_before(cleaned_lines), line)
        ELSE Append(cleaned_lines, line)
    ELSE Append(cleaned_lines, line)

RECURSIVE clean_section_loop(_, _, _, _)
clean_section_loop(content_lines, section_type, i, cleaned_lines) ==
    IF i > Len(content_lines) THEN cleaned_lines
    ELSE clean_section_loop(content_lines, section_type, i + 1,
             clean_section_line(content_lines, section_type, i, cleaned_lines))

RECURSIVE collapse_blank_lines(_, _, _)
\* the final cleanup loop: at most one blank line in a row
collapse_blank_lines(cleaned_lines, blank_line_count, final_lines) ==
    IF cleaned_lines = <<>> THEN final_lines
    ELSE IF cleaned_lines[1] = <<>>
         THEN collapse_blank_lines(Tail(cleaned_lines), blank_line_count + 1,
                  IF blank_line_count + 1 <= 1
                  THEN Append(final_lines, <<>>) ELSE final_lines)
         ELSE collapse_blank_lines(Tail(cleaned_lines), 0,
                  Append(final_lines, cleaned_lines[1]))

RECURSIVE drop_trailing_blank(_)
drop_trailing_blank(final_lines) ==
    IF final_lines # <<>> /\ final_lines[Len(final_lines)] = <<>>
    THEN drop_trailing_blank(SubSeq(final_lines, 1, Len(final_lines) - 1))
    ELSE final_lines

\* the formatter without "Remove trailing blank lines"
_clean_section_untrimmed(content_lines, section_type) ==
    IF content_lines = <<>> THEN <<>>
    ELSE join(<<"\n">>,
             collapse_blank_lines(
                 clean_section_loop(content_lines, section_type, 1, <<>>),
                 0, <<>>))

_clean_section_content(content_lines, section_type) ==
    IF content_lines = <<>> THEN <<>>
    ELSE join(<<"\n">>,
             drop_trailing_blank(
                 collapse_blank_lines(
                     clean_section_loop(content_lines, section_type, 1, <<>>),
                     0, <<>>)))


\* resume_text after the clean-up at the head of _parse_resume_sections,
\* split into lines, each stripped and with its inner whitespace collapsed
prepare_lines(text) ==
    LET t1 == replace(replace(text, <<"\r", "\n">>, <<"\n">>), <<"\r">>, <<"\n">>)
        t2 == re_sub_blank_lines(t1)
        raw == split(t2, <<"\n">>)
    IN  [i \in 1..Len(raw) |->
            IF strip(raw[i]) # <<>> THEN re_sub_whitespace(strip(raw[i])) ELSE <<>>]

\* sections[key] = value on a dict that keeps insertion order; raw holds the
\* lines the value was made from
dict_set(d, key, raw, value) ==
    LET entry == [name |-> key, raw |-> raw, content |-> value] IN
    IF \E i \in 1..Len(d) : d[i].name = key
    THEN [i \in 1..Len(d) |-> IF d[i].name = key THEN entry ELSE d[i]]
    ELSE Append(d, entry)

\* "Save previous section" / "Save the last section"
save_section(d, section, content) ==
    IF content = <<>> THEN d
    ELSE IF section = "header"
         THEN dict_set(d, "header", content, _clean_header_content(content))
         ELSE dict_set(d, section, content, _clean_section_content(content, section))

(***************************************************************************)
(* SpecSections: generate_docx / generate_pdf up to the section mapping.   *)
(***************************************************************************)
MaxLines == 4

v_blank      == <<>>
v_title      == <<"D","r",".">>
v_name       == <<"J","a","n","e"," ","D","o","e">>
v_skills     == <<"S","K","I","L","L","S">>
v_experience == <<"E","x","p","e","r","i","e","n","c","e",":">>
v_item       == <<"P","y","t","h","o","n",",","J","a","v","a">>

SectionVocabulary ==
    {v_blank, v_title, v_name, v_skills, v_experience, v_item}

scenario_1 ==
    <<"H","e","r","e"," ","i","s"," ","t","h","e"," ","f","i","n","a","l",
        ","," ","d","o","c","u","m","e","n","t","-","r","e","a","d","y"," ",
        "c","o","n","t","e","n","t"," ","t","h","a","t"," ","w","i","l","l",
        " ","g","e","n","e","r","a","t","e"," ","p","e","r","f","e","c","t",
        " ","f","i","l","e","s",":","\n","D","r","."," ","J","a","n","e",
        " ","D","o","e","\n","A","I"," ","E","n","g","i","n","e","e","r",
        "\n","j","a","n","e","@","x",".","c","o","m","\n","P","R","O","F",
        "E","S","S","I","O","N","A","L"," ","S","U","M","M","A","R","Y",
        "\n","E","x","p","e","r","i","e","n","c","e","d"," ","e","n","g",
        "i","n","e","e","r",".","\n","S","K","I","L","L","S","\n","P","y",
        "t","h","o","n",",","J","a","v","a">>

\* a known section followed by two sections the patterns do not know
u_hobbies   == <<"H","O","B","B","I","E","S">>
u_languages == <<"L","A","N","G","U","A","G","E","S">>
u_python    == <<"P","y","t","h","o","n">>
u_chess     == <<"C","h","e","s","s">>
u_igbo      == <<"I","g","b","o">>

unknown_sections ==
    join(<<"\n">>, <<v_skills, u_python, u_hobbies, u_chess, u_languages, u_igbo>>)

\* a section header without content that comes again, with content, after
\* another section
repeated_sections ==
    join(<<"\n">>, <<v_skills, v_experience, v_name, v_skills, u_python>>)

SectionInputs ==
    {join(<<"\n">>, ls) :
        ls \in UNION {[1..n -> SectionVocabulary] : n \in 1..MaxLines}}
    \cup {scenario_1, unknown_sections, repeated_sections}

InitSectionsOn(inputs) ==
    /\ given_text \in inputs
    /\ resume_text = given_text
    /\ spc = "format"
    /\ converters \in BOOLEAN
    /\ lines = <<>>
    /\ li = 0
    /\ current_section = "header"
    /\ current_content = <<>>
    /\ found_first_section = FALSE
    /\ sections = <<>>
    /\ RepairIdle
    /\ DedupIdle
    /\ HeaderIdle
    /\ CleanIdle
    /\ AgentIdle
    /\ RenderIdle
    /\ steps = 0

InitSections == InitSectionsOn(SectionInputs)

\* resume_text = self._ensure_proper_formatting(resume_text)
EnsureProperFormattingGuard ==
    /\ spc = "format"

EnsureProperFormatting ==
    /\ EnsureProperFormattingGuard
    /\ resume_text' = _ensure_proper_formatting(resume_text, converters)
    /\ spc' = "parse"
    /\ steps' = steps + 1
    /\ UNCHANGED <<given_text, converters, lines, li, current_section,
                   current_content, found_first_section, sections, notSectionsVars>>

\* _parse_resume_sections up to the loop over the lines
ParseBeginGuard ==
    /\ spc = "parse"

ParseBegin ==
    /\ ParseBeginGuard
    /\ lines' = prepare_lines(resume_text)
    /\ li' = 1
    /\ current_section' = "header"
    /\ current_content' = <<>>
    /\ found_first_section' = FALSE
    /\ sections' = <<>>
    /\ spc' = "scan"
    /\ steps' = steps + 1
    /\ UNCHANGED <<given_text, converters, resume_text, notSectionsVars>>

\* one iteration of "for i, line in enumerate(lines)" on a section header
ScanHeaderLineGuard ==
    /\ spc = "scan"
    /\ li <= Len(lines)
    /\ matched_section(lines[li]) # ""

ScanHeaderLine ==
    /\ ScanHeaderLineGuard
    /\ sections' = save_section(sections, current_section, current_content)
    /\ current_section' = matched_section(lines[li])
    /\ current_content' = <<>>
    /\ found_first_section' = TRUE
    /\ li' = li + 1
    /\ steps' = steps + 1
    /\ UNCHANGED <<given_text, spc, converters, resume_text, lines, notSectionsVars>>

\* one iteration on any other line
ScanContentLineGuard ==
    /\ spc = "scan"
    /\ li <= Len(lines)
    /\ matched_section(lines[li]) = ""

ScanContentLine ==
    /\ ScanContentLineGuard
    /\ current_content' = Append(current_content, lines[li])
    /\ li' = li + 1
    /\ steps' = steps + 1
    /\ UNCHANGED <<given_text, spc, converters, resume_text, lines,
                   current_section, found_first_section, sections, notSectionsVars>>

\* "Save the last section" and return
ParseReturnGuard ==
    /\ spc = "scan"
    /\ li > Len(lines)

ParseReturn ==
    /\ ParseReturnGuard
    /\ sections' = save_section(sections, current_section, current_content)
    /\ spc' = "done"
    /\ steps' = steps + 1
    /\ UNCHANGED <<given_text, converters, resume_text, lines, li, current_section,
                   current_content, found_first_section, notSectionsVars>>

NextSections ==
    \/ EnsureProperFormatting
    \/ ParseBegin
    \/ ScanHeaderLine
    \/ ScanContentLine
    \/ ParseReturn

SpecSections == InitSections /\ [][NextSections]_vars

RECURSIVE parse_scan(_, _, _, _, _)
\* the whole of _parse_resume_sections as a function of its lines
parse_scan(ls, i, section, content, d) ==
    IF i > Len(ls) THEN save_section(d, section, content)
    ELSE IF matched_section(ls[i]) # ""
         THEN parse_scan(ls, i + 1, matched_section(ls[i]), <<>>,
                         save_section(d, section, content))
         ELSE parse_scan(ls, i + 1, section, Append(content, ls[i]), d)

_parse_resume_sections(text) ==
    parse_scan(prepare_lines(text), 1, "header", <<>>, <<>>)


(***************************************************************************)
(* SpecRender: generate_docx / generate_pdf from the text to the saved     *)
(* document.  After the section mapping is built the generator puts the    *)
(* header, the four fixed sections and the additional sections into the    *)
(* document, one call or loop iteration per step; story is the list of     *)
(* what has been put there (the PDF story, the paragraphs of the DOCX).    *)
(***************************************************************************)
MaxRenderLines == 3

r_projects  == <<"P","R","O","J","E","C","T","S">>
r_education == <<"E","D","U","C","A","T","I","O","N">>

RenderVocabulary == {v_name, v_skills, r_projects, v_item}

\* additional sections before and between the fixed ones
render_scenario ==
    join(<<"\n">>, <<v_name, r_projects, v_item, r_education, v_name,
                     v_skills, v_item>>)

RenderInputs ==
    {join(<<"\n">>, ls) :
        ls \in UNION {[1..n -> RenderVocabulary] : n \in 1..MaxRenderLines}}
    \cup {render_scenario, repeated_sections}

RenderKinds == {"docx", "pdf"}

InitRender ==
    /\ given_text \in RenderInputs
    /\ resume_text = given_text
    /\ spc = "format"
    /\ converters \in BOOLEAN
    /\ lines = <<>>
    /\ li = 0
    /\ current_section = "header"
    /\ current_content = <<>>
    /\ found_first_section = FALSE
    /\ sections = <<>>
    /\ render_kind \in RenderKinds
    /\ story = <<>>
    /\ render_pos = 0
    /\ RepairIdle
    /\ DedupIdle
    /\ HeaderIdle
    /\ CleanIdle
    /\ AgentIdle
    /\ steps = 0

section_order == <<"summary", "skills", "experience", "education">>

\* sections_data.get(key, '')
sections_get(d, key) ==
    IF \E i \in 1..Len(d) : d[i].name = key
    THEN d[CHOOSE i \in 1..Len(d) : d[i].name = key].content
    ELSE <<>>

\* [line.strip() for line in header_value.split('\n') if line.strip()]
header_clean_lines(header_value) ==
    SelectSeq([k \in 1..Len(split(header_value, <<"\n">>)) |->
                  strip(split(header_value, <<"\n">>)[k])],
              LAMBDA l : l # <<>>)

\* the test of the additional-sections loop without the fixed names
is_additional_section_any(section_name, content) ==
    section_name # "header" /\ content # <<>>

\* section_name not in ['header'] + section_order and content
is_additional_section(section_name, content) ==
    /\ section_name \notin
           {"header"} \cup {section_order[k] : k \in 1..Len(section_order)}
    /\ content # <<>>

\* _add_docx_header, and "Add header with professional formatting" of
\* generate_pdf
RenderHeader ==
    /\ spc = "done"
    /\ render_kind \in RenderKinds
    /\ LET header_value == sections_get(sections, "header") IN
          story' = IF header_value # <<>> /\ header_clean_lines(header_value) # <<>>
                   THEN Append(story, [via |-> "header", section |-> "header",
                                       content |-> header_value])
                   ELSE story
    /\ render_pos' = 1
    /\ spc' = "fixed_sections"
    /\ UNCHANGED <<converters, given_text, resume_text, lines, li,
                   current_section, current_content, found_first_section,
                   sections, render_kind, notRenderVars>>

\* one of the four _add_docx_section calls; one iteration of
\* "for section in section_order"
RenderFixedSection ==
    /\ spc = "fixed_sections"
    /\ render_pos <= Len(section_order)
    /\ LET value == sections_get(sections, section_order[render_pos]) IN
          story' = IF value # <<>>
                   THEN Append(story, [via |-> "section",
                                       section |-> section_order[render_pos],
                                       content |-> value])
                   ELSE story
    /\ render_pos' = render_pos + 1
    /\ UNCHANGED <<spc, converters, given_text, resume_text, lines, li,
                   current_section, current_content, found_first_section,
                   sections, render_kind, notRenderVars>>

\* "Add any additional sections": the loop over sections_data.items() begins
RenderFixedEnd ==
    /\ spc = "fixed_sections"
    /\ render_pos > Len(section_order)
    /\ render_pos' = 1
    /\ spc' = "additional_sections"
    /\ UNCHANGED <<converters, given_text, resume_text, lines, li,
                   current_section, current_content, found_first_section,
                   sections, render_kind, story, notRenderVars>>

\* one iteration of "for section_name, content in sections_data.items()"
RenderAdditionalSection ==
    /\ spc = "additional_sections"
    /\ render_pos <= Len(sections)
    /\ LET item == sections[render_pos] IN
          story' = IF is_additional_section(item.name, item.content)
                   THEN Append(story, [via |-> "section",
                                       section |-> item.name,
                                       content |-> item.content])
                   ELSE story
    /\ render_pos' = render_pos + 1
    /\ UNCHANGED <<spc, converters, given_text, resume_text, lines, li,
                   current_section, current_content, found_first_section,
                   sections, render_kind, notRenderVars>>

\* doc.save(file_path) / doc.build(story)
RenderSave ==
    /\ spc = "additional_sections"
    /\ render_pos > Len(sections)
    /\ spc' = "saved"
    /\ UNCHANGED <<converters, given_text, resume_text, lines, li,
                   current_section, current_content, found_first_section,
                   sections, render_kind, story, render_pos, notRenderVars>>

NextRender ==
    \/ EnsureProperFormatting
    \/ ParseBegin
    \/ ScanHeaderLine
    \/ ScanContentLine
    \/ ParseReturn
    \/ RenderHeader
    \/ RenderFixedSection
    \/ RenderFixedEnd
    \/ RenderAdditionalSection
    \/ RenderSave

SpecRender == InitRender /\ [][NextRender]_vars


(***************************************************************************)
(* SpecFormatter: _clean_section_content applied to a list of content      *)
(* lines under a section type, as the section parser does when it saves a  *)
(* bucket.  Unlike the parser, the list may be empty or hold lines that    *)
(* are not stripped.                                                       *)
(***************************************************************************)
MaxContentLines == 3

f_blank    == <<>>
f_space    == <<" ">>
f_category == <<"T","o","o","l","s",":"," ","G","i","t">>
f_role     == <<"A","I"," ","E","n","g","i","n","e","e","r">>
f_project  == <<"circle"," ","A","l","p","h","a">>
f_bullet   == <<"-"," ","i","t","e","m">>
f_short    == <<"G","i","t">>
f_led      == <<"-"," ","L","e","a","d"," ","e","n","g","i","n","e","e","r">>
f_sentence == <<"B","u","i","l","d","s"," ","s","y","s","t","e","m","s",".">>
f_school   == <<"M","I","T"," ","U","n","i","v","e","r","s","i","t","y">>

FormatterVocabulary ==
    {f_blank, f_space, f_category, f_role, f_project, f_bullet, f_short,
     f_led, f_sentence, f_school}

SectionTypes ==
    {"summary", "skills", "experience", "education", "projects",
     "certifications", "achievements", "other"}

InitFormatter ==
    /\ current_content \in
           UNION {[1..n -> FormatterVocabulary] : n \in 0..MaxContentLines}
    /\ current_section \in SectionTypes
    /\ spc = "clean"
    /\ converters = TRUE
    /\ given_text = <<>>
    /\ resume_text = <<>>
    /\ lines = <<>>
    /\ li = 0
    /\ found_first_section = TRUE
    /\ sections = <<>>
    /\ RepairIdle
    /\ DedupIdle
    /\ HeaderIdle
    /\ CleanIdle
    /\ AgentIdle
    /\ RenderIdle
    /\ steps = 0

\* sections[current_section] = self._clean_section_content(current_content,
\* current_section)
CleanSection ==
    /\ spc = "clean"
    /\ sections' = dict_set(sections, current_section, current_content,
                       _clean_section_content(current_content, current_section))
    /\ spc' = "cleaned"
    /\ UNCHANGED <<converters, given_text, resume_text, lines, li,
                   current_section, current_content, found_first_section,
                   steps, notSectionsVars>>

NextFormatter == CleanSection

SpecFormatter == InitFormatter /\ [][NextFormatter]_vars

(***************************************************************************)
(* SpecRepair: a text is drawn, and one of the two repair passes is        *)
(* applied to it, then to its own result.                                  *)
(***************************************************************************)
MaxRepairLen == 5
MaxApplications == 2

RepairAlphabet == {"a", "B", "5", ",", ".", "%", " "}

ex_comma_in    == <<"P","y","t","h","o","n",",","J","a","v","a">>
ex_comma_out   == <<"P","y","t","h","o","n",","," ","J","a","v","a">>
ex_period_in   == <<"d","e","v","e","l","o","p","m","e","n","t",".",
                    "S","p","e","c","i","a","l","i","z","e","s">>
ex_period_out  == <<"d","e","v","e","l","o","p","m","e","n","t","."," ",
                    "S","p","e","c","i","a","l","i","z","e","s">>
ex_colon_in    == <<"L","a","n","g","u","a","g","e","s",":","P","y","t","h","o","n">>
ex_colon_out   == <<"L","a","n","g","u","a","g","e","s",":"," ","P","y","t","h","o","n">>
ex_number_in   == <<"5","y","e","a","r","s">>
ex_number_out  == <<"5"," ","y","e","a","r","s">>
ex_percent_in  == <<"4","0","%","i","m","p","r","o","v","e","m","e","n","t">>
ex_percent_out == <<"4","0","%"," ","i","m","p","r","o","v","e","m","e","n","t">>
ex_pipe_in     == <<"E","n","g","i","n","e","e","r","|","5","5","5">>
ex_camel_in    == <<"P","y","t","h","o","n",",","J","a","v","a","S","c","r","i","p","t">>

ex_spaced_in   == <<"P","y","t","h","o","n",",","J","a","v","a"," "," ","S","Q","L">>
ex_tabs_in     == <<"P","y","t","h","o","n","\t","\t","J","a","v","a">>

RepairExamples ==
    {ex_comma_in, ex_period_in, ex_colon_in, ex_number_in, ex_percent_in,
     ex_pipe_in, ex_camel_in, ex_spaced_in, ex_tabs_in}

RepairInputs == Texts(RepairAlphabet, MaxRepairLen) \cup RepairExamples

\* the text the next application works on
RepairCurrent == IF rout = <<>> THEN rin ELSE rout[Len(rout)]

InitRepair ==
    /\ rin \in RepairInputs
    /\ rkind \in {"text_processor", "file_generator"}
    /\ rout = <<>>
    /\ SectionsIdle
    /\ DedupIdle
    /\ HeaderIdle
    /\ CleanIdle
    /\ AgentIdle
    /\ RenderIdle
    /\ steps = 0

ApplyFixJamming ==
    /\ rkind = "text_processor"
    /\ Len(rout) < MaxApplications
    /\ rout' = Append(rout, _fix_jamming_issues(RepairCurrent))
    /\ UNCHANGED <<rin, rkind, notRepairVars>>

ApplyBasicFixes ==
    /\ rkind = "file_generator"
    /\ Len(rout) < MaxApplications
    /\ rout' = Append(rout, _basic_formatting_fixes(RepairCurrent))
    /\ UNCHANGED <<rin, rkind, notRepairVars>>

NextRepair ==
    \/ ApplyFixJamming
    \/ ApplyBasicFixes

SpecRepair == InitRepair /\ [][NextRepair]_vars

(***************************************************************************)
(* SpecStrip: a text is drawn, and the prefix removal of one of the three  *)
(* generators is applied to it.  The texts are made of the phrases the     *)
(* removal looks for, a word, a colon and a line break.                    *)
(***************************************************************************)
MaxStripTokens == 3

s_word  == <<"J","a","n","e">>
s_colon == <<":">>
s_break == <<"\n">>
s_files == <<" ">> \o files_phrase

StripTokens ==
    {scaffold_marker, s_files, trailing_marker, s_word, s_colon, s_break}

StripInputs ==
    {join(<<>>, ts) :
        ts \in UNION {[1..k -> StripTokens] : k \in 0..MaxStripTokens}}

StripKinds == {"strip_v2", "strip_converter", "strip_v1"}

InitStrip ==
    /\ rin \in StripInputs
    /\ rkind \in StripKinds
    /\ rout = <<>>
    /\ SectionsIdle
    /\ DedupIdle
    /\ HeaderIdle
    /\ CleanIdle
    /\ AgentIdle
    /\ RenderIdle
    /\ steps = 0

StripV2 ==
    /\ rkind = "strip_v2"
    /\ rout = <<>>
    /\ rout' = <<strip_prefix_v2(rin)>>
    /\ UNCHANGED <<rin, rkind, notRepairVars>>

StripConverter ==
    /\ rkind = "strip_converter"
    /\ rout = <<>>
    /\ rout' = <<strip_prefix_converter(rin)>>
    /\ UNCHANGED <<rin, rkind, notRepairVars>>

StripV1 ==
    /\ rkind = "strip_v1"
    /\ rout = <<>>
    /\ rout' = <<strip_prefix_v1(rin)>>
    /\ UNCHANGED <<rin, rkind, notRepairVars>>

NextStrip ==
    \/ StripV2
    \/ StripConverter
    \/ StripV1

SpecStrip == InitStrip /\ [][NextStrip]_vars


(***************************************************************************)
(* AdvancedFileGeneratorV2: the duplicate-block eliminator                 *)
(***************************************************************************)
tracked_projects ==
    { <<"N","z","u","b","e","G","l","a","u","c","o","D","e","t","e","c","t">>,
      <<"N","z","u","b","e","C","a","r","e">>,
      <<"V","i","v","i","a","n"," ","A","I">>,
      <<"M","u","l","t","i","-","A","g","e","n","t"," ","H","e","a","l","t","h","c","a","r","e">> }

role_tech_keywords ==
    { <<"E","n","g","i","n","e","e","r">>, <<"T","e","c","h",":">>,
      <<"D","e","v","e","l","o","p","e","r">>, <<"L","e","a","d">>,
      <<"A","I">>, <<"P","y","t","h","o","n">> }

similarity_threshold == 80

\* any(project in line for project in [...])
is_project_line(line) == \E project \in tracked_projects : contains(line, project)

\* l.strip().startswith('*') or l.strip().startswith('-')
starts_star_or_dash(line) ==
    startswith(strip(line), <<"*">>) \/ startswith(strip(line), <<"-">>)

\* the condition of the role/tech loop on the line at hand
is_role_tech_line(line) == strip(line) # <<>> /\ ~starts_star_or_dash(line)

keeps_role_tech_line(line) ==
    \E keyword \in role_tech_keywords : contains(strip(line), keyword)

\* the stop conditions of the collection loop
is_stop_line(line) ==
    LET current_line == strip(line) IN
        \/ startswith(current_line, <<"#","#">>)
        \/ is_project_line(current_line)
        \/ startswith(upper(current_line), <<"E","D","U","C","A","T","I","O","N">>)
        \/ startswith(upper(current_line), <<"C","E","R","T","I","F","I","C","A","T","I","O","N","S">>)
        \/ startswith(upper(current_line), <<"A","C","H","I","E","V","E","M","E","N","T","S">>)

\* "Group content into blocks"
RECURSIVE group_blocks(_, _, _)
group_blocks(content_lines, current_block, blocks) ==
    IF content_lines = <<>>
    THEN IF current_block # <<>> THEN Append(blocks, current_block) ELSE blocks
    ELSE IF strip(Head(content_lines)) = <<>>
         THEN group_blocks(Tail(content_lines), <<>>,
                           IF current_block # <<>>
                           THEN Append(blocks, current_block) ELSE blocks)
         ELSE group_blocks(Tail(content_lines),
                           Append(current_block, Head(content_lines)), blocks)

non_blank(l) == strip(l) # <<>>

\* '\n'.join([l.strip() for l in block if l.strip()])
block_text(block) ==
    LET kept == SelectSeq(block, non_blank) IN
        join(<<"\n">>, [k \in 1..Len(kept) |-> strip(kept[k])])

\* fuzz.ratio: a symmetric score, 100 on equal texts, otherwise the score
\* the library gives for the pair
fuzz_ratio(scores, a, b) == IF a = b THEN 100 ELSE scores[{a, b}]

has_bullets(block) == \E k \in 1..Len(block) : starts_star_or_dash(block[k])

\* index of the first retained block the new block is similar to, 0 if none
first_similar(scores, unique, block) ==
    LET similar == { idx \in 1..Len(unique) :
                       fuzz_ratio(scores, lower(block_text(block)),
                                  lower(block_text(unique[idx])))
                           > similarity_threshold }
    IN  IF similar = {} THEN 0 ELSE Min(similar)

keep_first_version(unique, idx, block) == unique

\* "Prefer the bulleted version"
prefer_bulleted(unique, idx, block) ==
    IF has_bullets(block) /\ ~has_bullets(unique[idx])
    THEN [unique EXCEPT ![idx] = block]
    ELSE unique

\* "Identify duplicates using similarity"
RECURSIVE select_unique(_, _, _)
select_unique(scores, blocks, unique) ==
    IF blocks = <<>> THEN unique
    ELSE LET block == Head(blocks)
             idx == first_similar(scores, unique, block)
         IN  IF block_text(block) = <<>>
             THEN select_unique(scores, Tail(blocks), unique)
             ELSE IF idx = 0
                  THEN select_unique(scores, Tail(blocks), Append(unique, block))
                  ELSE select_unique(scores, Tail(blocks),
                                     prefer_bulleted(unique, idx, block))

\* "Flatten unique blocks back to lines"
RECURSIVE flatten_blocks(_)
flatten_blocks(unique) ==
    IF unique = <<>> THEN <<>>
    ELSE Head(unique) \o << <<>> >> \o flatten_blocks(Tail(unique))

\* the blocks _deduplicate_project_content forms and the ones it retains
raw_blocks(content_lines) == group_blocks(content_lines, <<>>, <<>>)
retained_blocks(scores, content_lines) ==
    select_unique(scores, raw_blocks(content_lines), <<>>)

\* the retained blocks flattened last block first
_deduplicate_newest_first(scores, content_lines) ==
    LET unique == retained_blocks(scores, content_lines)
    IN  IF content_lines = <<>> THEN <<>>
        ELSE flatten_blocks([k \in 1..Len(unique) |->
                                unique[Len(unique) + 1 - k]])

_deduplicate_project_content(scores, content_lines) ==
    IF content_lines = <<>> THEN <<>>
    ELSE flatten_blocks(retained_blocks(scores, content_lines))

\* the texts fuzz.ratio may be asked about for a pool, and the pairs of
\* them it has not scored yet
block_texts(blocks) == { lower(block_text(blocks[k])) : k \in 1..Len(blocks) }
unscored_pairs(blocks) ==
    { {a, b} : a \in block_texts(blocks), b \in block_texts(blocks) }
        \ ({ {a} : a \in block_texts(blocks) } \cup DOMAIN ratio)

(***************************************************************************)
(* SpecDedup: _remove_duplicate_content_aggressive, one loop iteration per *)
(* step, on texts built from a small vocabulary of lines                   *)
(***************************************************************************)
MaxDedupLines == 3
MaxBlocks == 3

d_blank  == <<>>
d_title  == <<"N","z","u","b","e","C","a","r","e">>
d_prose  == <<"B","u","i","l","t"," ","a"," ","c","a","r","e"," ","s","y","s","t","e","m">>
d_star   == <<"*"," ","B","u","i","l","t"," ","a"," ","c","a","r","e"," ","s","y","s","t","e","m">>
d_dotted == <<"bullet"," ","B","u","i","l","t"," ","a"," ","c","a","r","e"," ","s","y","s","t","e","m">>
d_role   == <<"A","I"," ","E","n","g","i","n","e","e","r">>
d_header == <<"#","#"," ","S","K","I","L","L","S">>

DedupVocabulary == {d_blank, d_title, d_prose, d_star, d_dotted, d_role, d_header}

BlockLines == {d_prose, d_star, d_dotted}

\* a project title followed by blocks of one line each, a blank line between
\* two blocks and possibly one after the title
RECURSIVE spaced_blocks(_)
spaced_blocks(bs) ==
    IF Len(bs) <= 1 THEN bs
    ELSE <<Head(bs), d_blank>> \o spaced_blocks(Tail(bs))

project_lines(lead, bs) == <<d_title>> \o lead \o spaced_blocks(bs)

Scores == {60, 80, 95}

DedupInputs ==
    { join(<<"\n">>, ls) :
        ls \in UNION { [1..n -> DedupVocabulary] : n \in 1..MaxDedupLines } }
    \cup
    { join(<<"\n">>, project_lines(lead, bs)) :
        lead \in {<<>>, <<d_blank>>},
        bs \in UNION { [1..n -> BlockLines] : n \in 1..MaxBlocks } }

InitDedupOn(inputs) ==
    /\ dedup_text \in inputs
    /\ dlines = <<>>
    /\ di = 0
    /\ dpc = "begin"
    /\ processed_lines = <<>>
    /\ role_tech_lines = <<>>
    /\ all_content_lines = <<>>
    /\ content_blocks = <<>>
    /\ unique_blocks = <<>>
    /\ deduplicated_content = <<>>
    /\ dedup_result = <<>>
    /\ ratio = <<>>
    /\ RepairIdle
    /\ SectionsIdle
    /\ HeaderIdle
    /\ CleanIdle
    /\ AgentIdle
    /\ RenderIdle
    /\ steps = 0

InitDedup == InitDedupOn(DedupInputs)

\* lines = text.split('\n'); processed_lines = []; i = 0
DedupBeginGuard ==
    /\ dpc = "begin"

DedupBegin ==
    /\ DedupBeginGuard
    /\ dlines' = split(dedup_text, <<"\n">>)
    /\ di' = 1
    /\ processed_lines' = <<>>
    /\ dpc' = "scan"
    /\ steps' = steps + 1
    /\ UNCHANGED <<dedup_text, role_tech_lines, all_content_lines,
                   content_blocks, unique_blocks, deduplicated_content,
                   dedup_result, ratio, notDedupVars>>

\* an iteration of the outer loop on a line that names no tracked project
ScanOtherLineGuard ==
    /\ dpc = "scan"
    /\ di <= Len(dlines)
    /\ ~is_project_line(strip(dlines[di]))

ScanOtherLine ==
    /\ ScanOtherLineGuard
    /\ processed_lines' = Append(processed_lines, dlines[di])
    /\ di' = next_index(di)
    /\ steps' = steps + 1
    /\ UNCHANGED <<dedup_text, dlines, dpc, role_tech_lines, all_content_lines,
                   content_blocks, unique_blocks, deduplicated_content,
                   dedup_result, ratio, notDedupVars>>

\* an iteration of the outer loop on a project title, up to the role/tech loop
ScanProjectTitleGuard ==
    /\ dpc = "scan"
    /\ di <= Len(dlines)
    /\ is_project_line(strip(dlines[di]))

ScanProjectTitle ==
    /\ ScanProjectTitleGuard
    /\ processed_lines' = Append(processed_lines, dlines[di])
    /\ di' = next_index(di)
    /\ role_tech_lines' = <<>>
    /\ dpc' = "role"
    /\ steps' = steps + 1
    /\ UNCHANGED <<dedup_text, dlines, all_content_lines,
                   content_blocks, unique_blocks, deduplicated_content,
                   dedup_result, ratio, notDedupVars>>

\* an iteration of "Skip any role/tech lines immediately after project title"
RoleTechLineGuard ==
    /\ dpc = "role"
    /\ di <= Len(dlines)
    /\ is_role_tech_line(dlines[di])

RoleTechLine ==
    /\ RoleTechLineGuard
    /\ role_tech_lines' = IF keeps_role_tech_line(dlines[di])
                          THEN Append(role_tech_lines, dlines[di])
                          ELSE role_tech_lines
    /\ di' = next_index(di)
    /\ steps' = steps + 1
    /\ UNCHANGED <<dedup_text, dlines, dpc, processed_lines, all_content_lines,
                   content_blocks, unique_blocks, deduplicated_content,
                   dedup_result, ratio, notDedupVars>>

\* the role/tech loop ends
RoleTechEndGuard ==
    /\ dpc = "role"
    /\ ~(di <= Len(dlines) /\ is_role_tech_line(dlines[di]))

RoleTechEnd ==
    /\ RoleTechEndGuard
    /\ processed_lines' = processed_lines \o role_tech_lines
    /\ all_content_lines' = <<>>
    /\ dpc' = "collect"
    /\ steps' = steps + 1
    /\ UNCHANGED <<dedup_text, dlines, di, role_tech_lines,
                   content_blocks, unique_blocks, deduplicated_content,
                   dedup_result, ratio, notDedupVars>>

\* an iteration of "Collect ALL content until next project or section"
CollectLineGuard ==
    /\ dpc = "collect"
    /\ di <= Len(dlines)
    /\ ~is_stop_line(dlines[di])

CollectLine ==
    /\ CollectLineGuard
    /\ all_content_lines' = Append(all_content_lines, dlines[di])
    /\ di' = next_index(di)
    /\ steps' = steps + 1
    /\ UNCHANGED <<dedup_text, dlines, dpc, processed_lines, role_tech_lines,
                   content_blocks, unique_blocks, deduplicated_content,
                   dedup_result, ratio, notDedupVars>>

\* the collection loop ends: deduplicate the pool and go on with the scan
CollectEndGuard ==
    /\ dpc = "collect"
    /\ ~(di <= Len(dlines) /\ ~is_stop_line(dlines[di]))

CollectEnd ==
    /\ CollectEndGuard
    /\ \E fresh \in [unscored_pairs(raw_blocks(all_content_lines)) -> Scores] :
          LET scores == ratio @@ fresh IN
              /\ ratio' = scores
              /\ content_blocks' = raw_blocks(all_content_lines)
              /\ unique_blocks' = IF all_content_lines = <<>> THEN <<>>
                                  ELSE retained_blocks(scores, all_content_lines)
              /\ deduplicated_content' =
                     _deduplicate_project_content(scores, all_content_lines)
              /\ processed_lines' =
                     (processed_lines
                        \o _deduplicate_project_content(scores, all_content_lines))
                        \o << <<>> >>
    /\ dpc' = "scan"
    /\ steps' = steps + 1
    /\ UNCHANGED <<dedup_text, dlines, di, role_tech_lines, all_content_lines,
                   dedup_result, notDedupVars>>

\* return '\n'.join(processed_lines)
DedupReturnGuard ==
    /\ dpc = "scan"
    /\ di > Len(dlines)

DedupReturn ==
    /\ DedupReturnGuard
    /\ dedup_result' = join(<<"\n">>, processed_lines)
    /\ dpc' = "done"
    /\ steps' = steps + 1
    /\ UNCHANGED <<dedup_text, dlines, di, processed_lines, role_tech_lines,
                   all_content_lines, content_blocks, unique_blocks,
                   deduplicated_content, ratio, notDedupVars>>

NextDedup ==
    \/ DedupBegin
    \/ ScanOtherLine
    \/ ScanProjectTitle
    \/ RoleTechLine
    \/ RoleTechEnd
    \/ CollectLine
    \/ CollectEnd
    \/ DedupReturn

SpecDedup == InitDedup /\ [][NextDedup]_vars

(***************************************************************************)
(* AdvancedFileGeneratorV2._restructure_header                             *)
(***************************************************************************)
name_words == { <<"A","n","t","h","o","n","y">>, <<"A","n","y","a","n","w","u">> }

contact_indicators ==
    { <<"@">>, <<"+">>, <<"n","i","g","e","r","i","a">>, <<"a","b","u","j","a">>,
      <<"l","i","n","k","e","d","i","n">>, <<"g","i","t","h","u","b">>, <<".","c","o","m">> }

name_search_limit  == 5
title_line_limit   == 10
contact_line_limit == 20
title_min_len      == 5

doctor == <<"D","r",".">>

\* "if not next_line: i += 1; continue" without the increment
skip_blank_forgotten(i) == i

\* "if not next_line: i += 1; continue"
skip_blank(i) == i + 1

\* the condition under which a line is taken for the name line
is_name_candidate(i, line) ==
    \/ i = 0
    \/ /\ i < name_search_limit
       /\ \/ contains(line, doctor)
          \/ \E name_word \in name_words : contains(line, name_word)

\* line.replace('**', '').strip()
clean_name(line) == strip(replace(line, <<"*","*">>, <<>>))

\* line.replace('**', '').replace('*', '').strip()
clean_markup(line) ==
    strip(replace(replace(line, <<"*","*">>, <<>>), <<"*">>, <<>>))

is_contact(line) ==
    \E contact_indicator \in contact_indicators :
        contains(lower(line), contact_indicator)

is_section_start(line) ==
    \/ startswith(upper(line), <<"P","R","O","F","E","S","S","I","O","N","A","L">>)
    \/ startswith(line, <<"#","#">>)

\* " | ".join(items)
join_items(items) == join(<<" ","|"," ">>, items)

(***************************************************************************)
(* SpecHeader: _restructure_header, one loop iteration per step            *)
(***************************************************************************)
MaxHeaderLines == 4

h_blank    == <<>>
h_name     == <<"D","r","."," ","J","a","n","e"," ","D","o","e">>
h_plain    == <<"J","a","n","e"," ","D","o","e">>
h_title    == <<"A","I"," ","E","n","g","i","n","e","e","r">>
h_contact  == <<"j","a","n","e","@","x",".","c","o","m">>
h_section  == <<"P","R","O","F","E","S","S","I","O","N","A","L"," ","S","U","M","M","A","R","Y">>
h_indented == <<" "," ","P","y","t","h","o","n"," ">>

HeaderVocabulary ==
    {h_blank, h_name, h_plain, h_title, h_contact, h_section, h_indented}

HeaderInputs ==
    { join(<<"\n">>, ls) :
        ls \in UNION { [1..n -> HeaderVocabulary] : n \in 1..MaxHeaderLines } }

InitHeaderOn(inputs) ==
    /\ header_source \in inputs
    /\ hlines = <<>>
    /\ hi = 0
    /\ hpc = "begin"
    /\ restructured_lines = <<>>
    /\ header_processed = FALSE
    /\ job_titles = <<>>
    /\ contact_items = <<>>
    /\ header_result = <<>>
    /\ RepairIdle
    /\ SectionsIdle
    /\ DedupIdle
    /\ CleanIdle
    /\ AgentIdle
    /\ RenderIdle
    /\ steps = 0

InitHeader == InitHeaderOn(HeaderInputs)

\* the line at index hi, stripped
hline == strip(hlines[hi + 1])

\* lines = text.split('\n'); restructured_lines = []; i = 0
HeaderBeginGuard ==
    /\ hpc = "begin"

HeaderBegin ==
    /\ HeaderBeginGuard
    /\ hlines' = split(header_source, <<"\n">>)
    /\ hi' = 0
    /\ restructured_lines' = <<>>
    /\ header_processed' = FALSE
    /\ hpc' = "scan"
    /\ steps' = steps + 1
    /\ UNCHANGED <<header_source, job_titles, contact_items, header_result,
                   notHeaderVars>>

\* the name line is found: emit it as the top heading
HeaderNameGuard ==
    /\ hpc = "scan"
    /\ hi < Len(hlines) /\ ~header_processed
    /\ is_name_candidate(hi, hline)
    /\ contains(clean_name(hline), doctor)

HeaderName ==
    /\ HeaderNameGuard
    /\ restructured_lines' =
           Append(restructured_lines, <<"#"," ">> \o clean_name(hline))
    /\ hi' = next_index(hi)
    /\ job_titles' = <<>>
    /\ hpc' = "titles"
    /\ steps' = steps + 1
    /\ UNCHANGED <<header_source, hlines, header_processed, contact_items,
                   header_result, notHeaderVars>>

\* a candidate for the name line that has no 'Dr.' in it
HeaderNoNameGuard ==
    /\ hpc = "scan"
    /\ hi < Len(hlines) /\ ~header_processed
    /\ is_name_candidate(hi, hline)
    /\ ~contains(clean_name(hline), doctor)

HeaderNoName ==
    /\ HeaderNoNameGuard
    /\ restructured_lines' = Append(restructured_lines, hline)
    /\ hi' = next_index(hi)
    /\ steps' = steps + 1
    /\ UNCHANGED <<header_source, hlines, hpc, header_processed, job_titles,
                   contact_items, header_result, notHeaderVars>>

\* any other line before the header is found
HeaderOtherLineGuard ==
    /\ hpc = "scan"
    /\ hi < Len(hlines) /\ ~header_processed
    /\ ~is_name_candidate(hi, hline)

HeaderOtherLine ==
    /\ HeaderOtherLineGuard
    /\ restructured_lines' = Append(restructured_lines, hline)
    /\ hi' = next_index(hi)
    /\ header_processed' = is_section_start(hline)
    /\ steps' = steps + 1
    /\ UNCHANGED <<header_source, hlines, hpc, job_titles, contact_items,
                   header_result, notHeaderVars>>

\* the job title loop goes on with the line at hi
in_title_loop ==
    /\ hi < Len(hlines) /\ hi < title_line_limit
    /\ hline = <<>> \/ (~is_contact(hline) /\ ~is_section_start(hline))

\* an iteration of "Collect job titles"
HeaderTitleGuard ==
    /\ hpc = "titles"
    /\ in_title_loop

HeaderTitle ==
    /\ HeaderTitleGuard
    /\ job_titles' =
           IF hline # <<>> /\ Len(clean_markup(hline)) > title_min_len
           THEN Append(job_titles, clean_markup(hline))
           ELSE job_titles
    /\ hi' = IF hline = <<>> THEN skip_blank(hi) ELSE next_index(hi)
    /\ steps' = steps + 1
    /\ UNCHANGED <<header_source, hlines, hpc, restructured_lines,
                   header_processed, contact_items, header_result,
                   notHeaderVars>>

\* the job title loop ends: "Add job titles as one line"
HeaderTitlesEndGuard ==
    /\ hpc = "titles"
    /\ ~in_title_loop

HeaderTitlesEnd ==
    /\ HeaderTitlesEndGuard
    /\ restructured_lines' =
           IF job_titles # <<>>
           THEN Append(restructured_lines, <<"#","#"," ">> \o join_items(job_titles))
           ELSE restructured_lines
    /\ contact_items' = <<>>
    /\ hpc' = "contacts"
    /\ steps' = steps + 1
    /\ UNCHANGED <<header_source, hlines, hi, header_processed, job_titles,
                   header_result, notHeaderVars>>

\* the contact loop goes on with the line at hi
in_contact_loop ==
    /\ hi < Len(hlines) /\ hi < contact_line_limit
    /\ hline = <<>> \/ ~is_section_start(hline)

\* an iteration of "Collect ALL contact information"
HeaderContactGuard ==
    /\ hpc = "contacts"
    /\ in_contact_loop

HeaderContact ==
    /\ HeaderContactGuard
    /\ contact_items' =
           IF hline # <<>> /\ clean_markup(hline) # <<>>
                /\ is_contact(clean_markup(hline))
           THEN Append(contact_items, clean_markup(hline))
           ELSE contact_items
    /\ hi' = IF hline = <<>> THEN skip_blank(hi) ELSE next_index(hi)
    /\ steps' = steps + 1
    /\ UNCHANGED <<header_source, hlines, hpc, restructured_lines,
                   header_processed, job_titles, header_result, notHeaderVars>>

\* the contact loop ends: emit the contact line and the spacing line
HeaderContactsEndGuard ==
    /\ hpc = "contacts"
    /\ ~in_contact_loop

HeaderContactsEnd ==
    /\ HeaderContactsEndGuard
    /\ restructured_lines' =
           (IF contact_items # <<>>
            THEN Append(restructured_lines, join_items(contact_items))
            ELSE restructured_lines) \o << <<>> >>
    /\ header_processed' = TRUE
    /\ hpc' = "scan"
    /\ steps' = steps + 1
    /\ UNCHANGED <<header_source, hlines, hi, job_titles, contact_items,
                   header_result, notHeaderVars>>

\* the first loop ends
HeaderScanEndGuard ==
    /\ hpc = "scan"
    /\ ~(hi < Len(hlines) /\ ~header_processed)

HeaderScanEnd ==
    /\ HeaderScanEndGuard
    /\ hpc' = "rest"
    /\ steps' = steps + 1
    /\ UNCHANGED <<header_source, hlines, hi, restructured_lines,
                   header_processed, job_titles, contact_items, header_result,
                   notHeaderVars>>

\* an iteration of "Add remaining lines"
HeaderRestLineGuard ==
    /\ hpc = "rest"
    /\ hi < Len(hlines)

HeaderRestLine ==
    /\ HeaderRestLineGuard
    /\ restructured_lines' = Append(restructured_lines, hlines[hi + 1])
    /\ hi' = next_index(hi)
    /\ steps' = steps + 1
    /\ UNCHANGED <<header_source, hlines, hpc, header_processed, job_titles,
                   contact_items, header_result, notHeaderVars>>

\* return '\n'.join(restructured_lines)
HeaderReturnGuard ==
    /\ hpc = "rest"
    /\ hi >= Len(hlines)

HeaderReturn ==
    /\ HeaderReturnGuard
    /\ header_result' = join(<<"\n">>, restructured_lines)
    /\ hpc' = "done"
    /\ steps' = steps + 1
    /\ UNCHANGED <<header_source, hlines, hi, restructured_lines,
                   header_processed, job_titles, contact_items, notHeaderVars>>

NextHeader ==
    \/ HeaderBegin
    \/ HeaderName
    \/ HeaderNoName
    \/ HeaderOtherLine
    \/ HeaderTitle
    \/ HeaderTitlesEnd
    \/ HeaderContact
    \/ HeaderContactsEnd
    \/ HeaderScanEnd
    \/ HeaderRestLine
    \/ HeaderReturn

SpecHeader == InitHeader /\ [][NextHeader]_vars

(***************************************************************************)
(* TextProcessor.clean_and_structure_text as a machine, one pass per step  *)
(* and one loop iteration per step in _fix_paragraph_spacing_enhanced      *)
(***************************************************************************)
InitCleanOn(inputs) ==
    /\ clean_source \in inputs
    /\ clean_text = <<>>
    /\ cpc = "begin"
    /\ spacing_lines = <<>>
    /\ si = 0
    /\ spaced_lines = <<>>
    /\ clean_result = <<>>
    /\ RepairIdle
    /\ SectionsIdle
    /\ DedupIdle
    /\ HeaderIdle
    /\ AgentIdle
    /\ RenderIdle
    /\ steps = 0

\* "if not text: return ''"
CleanEmptyGuard ==
    /\ cpc = "begin"
    /\ clean_source = <<>>

CleanEmpty ==
    /\ CleanEmptyGuard
    /\ clean_result' = <<>>
    /\ cpc' = "done"
    /\ steps' = steps + 1
    /\ UNCHANGED <<clean_source, clean_text, spacing_lines, si, spaced_lines,
                   notCleanVars>>

\* Step 1: _fix_jamming_issues
CleanJammingGuard ==
    /\ cpc = "begin"
    /\ clean_source # <<>>

CleanJamming ==
    /\ CleanJammingGuard
    /\ clean_text' = _fix_jamming_issues(clean_source)
    /\ cpc' = "cleaning"
    /\ steps' = steps + 1
    /\ UNCHANGED <<clean_source, spacing_lines, si, spaced_lines, clean_result,
                   notCleanVars>>

\* Step 2: _basic_text_cleaning
CleanBasicGuard ==
    /\ cpc = "cleaning"

CleanBasic ==
    /\ CleanBasicGuard
    /\ clean_text' = _basic_text_cleaning(clean_text)
    /\ cpc' = "tokenizer"
    /\ steps' = steps + 1
    /\ UNCHANGED <<clean_source, spacing_lines, si, spaced_lines, clean_result,
                   notCleanVars>>

\* Step 3: _process_with_hf_tokenizer
CleanTokenizerGuard ==
    /\ cpc = "tokenizer"

CleanTokenizer ==
    /\ CleanTokenizerGuard
    /\ clean_text' = _process_with_hf_tokenizer(clean_text)
    /\ cpc' = "sections"
    /\ steps' = steps + 1
    /\ UNCHANGED <<clean_source, spacing_lines, si, spaced_lines, clean_result,
                   notCleanVars>>

\* Step 4: _structure_sections
CleanStructureGuard ==
    /\ cpc = "sections"

CleanStructure ==
    /\ CleanStructureGuard
    /\ clean_text' = _structure_sections(clean_text)
    /\ cpc' = "bullets"
    /\ steps' = steps + 1
    /\ UNCHANGED <<clean_source, spacing_lines, si, spaced_lines, clean_result,
                   notCleanVars>>

\* Step 5: _format_bullet_points_enhanced
CleanBulletsGuard ==
    /\ cpc = "bullets"

CleanBullets ==
    /\ CleanBulletsGuard
    /\ clean_text' = _format_bullet_points_enhanced(clean_text)
    /\ cpc' = "spacing"
    /\ steps' = steps + 1
    /\ UNCHANGED <<clean_source, spacing_lines, si, spaced_lines, clean_result,
                   notCleanVars>>

\* Step 6: _fix_paragraph_spacing_enhanced, up to its loop
SpacingBeginGuard ==
    /\ cpc = "spacing"

SpacingBegin ==
    /\ SpacingBeginGuard
    /\ spacing_lines' = split(clean_text, <<"\n">>)
    /\ si' = 0
    /\ spaced_lines' = <<>>
    /\ cpc' = "spacing_loop"
    /\ steps' = steps + 1
    /\ UNCHANGED <<clean_source, clean_text, clean_result, notCleanVars>>

\* an iteration of its loop
SpacingStepGuard ==
    /\ cpc = "spacing_loop"
    /\ si < Len(spacing_lines)

SpacingStep ==
    /\ SpacingStepGuard
    /\ spaced_lines' = paragraph_step(spacing_lines, si, spaced_lines)
    /\ si' = next_index(si)
    /\ steps' = steps + 1
    /\ UNCHANGED <<clean_source, clean_text, cpc, spacing_lines, clean_result,
                   notCleanVars>>

\* its loop ends: return '\n'.join(final_lines)
SpacingEndGuard ==
    /\ cpc = "spacing_loop"
    /\ si >= Len(spacing_lines)

SpacingEnd ==
    /\ SpacingEndGuard
    /\ clean_text' = join(<<"\n">>, spaced_lines)
    /\ cpc' = "cleanup"
    /\ steps' = steps + 1
    /\ UNCHANGED <<clean_source, spacing_lines, si, spaced_lines, clean_result,
                   notCleanVars>>

\* Step 7: _final_cleanup, and return
CleanFinalGuard ==
    /\ cpc = "cleanup"

CleanFinal ==
    /\ CleanFinalGuard
    /\ clean_result' = _final_cleanup(clean_text)
    /\ cpc' = "done"
    /\ steps' = steps + 1
    /\ UNCHANGED <<clean_source, clean_text, spacing_lines, si, spaced_lines,
                   notCleanVars>>

NextClean ==
    \/ CleanEmpty
    \/ CleanJamming
    \/ CleanBasic
    \/ CleanTokenizer
    \/ CleanStructure
    \/ CleanBullets
    \/ SpacingBegin
    \/ SpacingStep
    \/ SpacingEnd
    \/ CleanFinal

(***************************************************************************)
(* SpecStages: one normalization stage, chosen at the start, runs on a     *)
(* text of a few lines                                                     *)
(***************************************************************************)
MaxStageLines == 3

t_blank   == <<>>
t_name    == <<"D","r","."," ","J","a","n","e"," ","D","o","e">>
t_contact == <<"j","a","n","e","@","x",".","c","o","m">>
t_section == <<"P","R","O","F","E","S","S","I","O","N","A","L"," ","S","U","M","M","A","R","Y">>
t_project == <<"N","z","u","b","e","C","a","r","e">>
t_bullet  == <<"*"," ","B","u","i","l","t"," ","a"," ","c","a","r","e"," ","s","y","s","t","e","m">>
t_item    == <<"P","y","t","h","o","n",",","J","a","v","a">>

StageVocabulary ==
    {t_blank, t_name, t_contact, t_section, t_project, t_bullet, t_item}

StageInputs ==
    { join(<<"\n">>, ls) :
        ls \in UNION { [1..n -> StageVocabulary] : n \in 1..MaxStageLines } }

InitStages ==
    \/ InitCleanOn(StageInputs)
    \/ InitHeaderOn(StageInputs)
    \/ InitDedupOn(StageInputs)
    \/ InitSectionsOn(StageInputs)

NextStages ==
    \/ NextClean
    \/ NextHeader
    \/ NextDedup
    \/ NextSections

SpecStages == InitStages /\ [][NextStages]_vars

(***************************************************************************)
(* SpecAgents: ResumeAgentSystem.process_resume.  The graph runs one node  *)
(* per step: the supervisor, the router on its conditional edges, or one   *)
(* of the three agents, whose language-model call returns a text, possibly *)
(* empty, or raises.  Texts are opaque here; "" is the empty text.         *)
(***************************************************************************)
max_iterations == 10

Resumes == {"", "resume"}

\* what chain.invoke does in an agent: the text returned, or "raise"
LLMOutcomes(text) == {"", text, "raise"}

InitAgents ==
    /\ apc = "begin"
    /\ original_resume \in Resumes
    /\ content_tailored = ""
    /\ formatting_applied = ""
    /\ document_ready = ""
    /\ current_agent = ""
    /\ iteration_count = 0
    /\ final_output = no_output
    /\ agent_result = no_output
    /\ entries = [n \in Nodes |-> 0]
    /\ RepairIdle
    /\ SectionsIdle
    /\ DedupIdle
    /\ HeaderIdle
    /\ CleanIdle
    /\ RenderIdle
    /\ steps = 0

\* process_resume builds initial_state and invokes the graph at its entry
\* point
ProcessBegin ==
    /\ apc = "begin"
    /\ content_tailored' = ""
    /\ formatting_applied' = ""
    /\ document_ready' = ""
    /\ current_agent' = ""
    /\ iteration_count' = 0
    /\ final_output' = no_output
    /\ apc' = "supervisor"
    /\ UNCHANGED <<original_resume, agent_result, entries, notAgentVars>>

\* the agent the supervisor chooses from the fields that are still empty
next_agent_eager ==
    IF document_ready = "" THEN "document_agent"
    ELSE IF formatting_applied = "" THEN "formatting_agent"
    ELSE IF content_tailored = "" THEN "content_agent"
    ELSE "FINISH"

next_agent ==
    IF content_tailored = "" THEN "content_agent"
    ELSE IF formatting_applied = "" THEN "formatting_agent"
    ELSE IF document_ready = "" THEN "document_agent"
    ELSE "FINISH"

\* "Prevent infinite loops", one entry late
over_limit_late(iteration) == iteration > max_iterations + 1

\* "Prevent infinite loops": the test on the count read at entry
over_limit(iteration) == iteration > max_iterations

SupervisorAgent ==
    /\ apc = "supervisor"
    /\ iteration_count' = iteration_count + 1
    /\ current_agent' =
           IF over_limit(iteration_count) THEN "FINISH" ELSE next_agent
    /\ entries' = [entries EXCEPT !["supervisor"] = @ + 1]
    /\ apc' = "route"
    /\ UNCHANGED <<original_resume, content_tailored, formatting_applied,
                   document_ready, final_output, agent_result, notAgentVars>>

\* the conditional edges: route_to_agent returns state["current_agent"]
RouteToAgent ==
    /\ apc = "route"
    /\ apc' = IF current_agent = "FINISH" THEN "end" ELSE current_agent
    /\ UNCHANGED <<original_resume, content_tailored, formatting_applied,
                   document_ready, current_agent, iteration_count,
                   final_output, agent_result, entries, notAgentVars>>

ContentAgent ==
    /\ apc = "content_agent"
    /\ \E result \in LLMOutcomes("tailored") :
          content_tailored' =
              IF result = "raise" THEN original_resume ELSE result
    /\ entries' = [entries EXCEPT !["content_agent"] = @ + 1]
    /\ apc' = "supervisor"
    /\ UNCHANGED <<original_resume, formatting_applied, document_ready,
                   current_agent, iteration_count, final_output, agent_result,
                   notAgentVars>>

FormattingAgent ==
    /\ apc = "formatting_agent"
    /\ \E result \in LLMOutcomes("formatted") :
          formatting_applied' =
              IF result = "raise" THEN content_tailored ELSE result
    /\ entries' = [entries EXCEPT !["formatting_agent"] = @ + 1]
    /\ apc' = "supervisor"
    /\ UNCHANGED <<original_resume, content_tailored, document_ready,
                   current_agent, iteration_count, final_output, agent_result,
                   notAgentVars>>

DocumentAgent ==
    /\ apc = "document_agent"
    /\ \E result \in LLMOutcomes("document") :
          IF result = "raise"
          THEN /\ document_ready' = formatting_applied
               /\ final_output' =
                      [tailored_resume |-> formatting_applied,
                       status |-> "partial_success",
                       method |-> "multi_agent_langraph_fallback"]
          ELSE /\ document_ready' = result
               /\ final_output' =
                      [tailored_resume |-> result,
                       status |-> "success",
                       method |-> "multi_agent_langraph"]
    /\ entries' = [entries EXCEPT !["document_agent"] = @ + 1]
    /\ apc' = "supervisor"
    /\ UNCHANGED <<original_resume, content_tailored, formatting_applied,
                   current_agent, iteration_count, agent_result, notAgentVars>>

\* "Ensure we have a final output".  The three fields are keys of the state
\* from the start, so that final_state.get("document_ready", ...) never
\* falls back to its default.
ProcessReturn ==
    /\ apc = "end"
    /\ agent_result' =
           IF final_output = no_output
           THEN [tailored_resume |-> document_ready,
                 status |-> "completed",
                 method |-> "multi_agent_langraph_emergency"]
           ELSE final_output
    /\ apc' = "returned"
    /\ UNCHANGED <<original_resume, content_tailored, formatting_applied,
                   document_ready, current_agent, iteration_count,
                   final_output, entries, notAgentVars>>

NextAgents ==
    \/ ProcessBegin
    \/ SupervisorAgent
    \/ RouteToAgent
    \/ ContentAgent
    \/ FormattingAgent
    \/ DocumentAgent
    \/ ProcessReturn

SpecAgents == InitAgents /\ [][NextAgents]_vars

\* the graph runs a node whenever one is ready, and process_resume returns
\* once the graph has ended
SpecAgentsFair == SpecAgents /\ WF_vars(NextAgents)


(***************************************************************************)
(* C2  Idempotence of artifact repair: applying the repair pass (either    *)
(* one) to its own result gives that result again.                         *)
(***************************************************************************)
C2_RepairIdempotent ==
    Len(rout) >= 2 => rout[2] = rout[1]

(***************************************************************************)
(* C10  Spacing repair examples: _fix_jamming_issues maps 'Python,Java' to *)
(* 'Python, Java', 'development.Specializes' to 'development. Specializes',*)
(* 'Languages:Python' to 'Languages: Python', '5years' to '5 years' and    *)
(* '40%improvement' to '40% improvement'.                                  *)
(***************************************************************************)
SpacingExpected(t) ==
    CASE t = ex_comma_in   -> ex_comma_out
      [] t = ex_period_in  -> ex_period_out
      [] t = ex_colon_in   -> ex_colon_out
      [] t = ex_number_in  -> ex_number_out
      [] t = ex_percent_in -> ex_percent_out

SpacingExamples ==
    {ex_comma_in, ex_period_in, ex_colon_in, ex_number_in, ex_percent_in}

C10_SpacingExamples ==
    (rkind = "text_processor" /\ rin \in SpacingExamples /\ Len(rout) >= 1)
        => rout[1] = SpacingExpected(rin)

C10_Witness ==
    /\ rkind = "text_processor"
    /\ rin = ex_percent_in
    /\ Len(rout) >= 1
    /\ rout[1] = ex_percent_out

(***************************************************************************)
(* Claims about the section mapping                                        *)
(***************************************************************************)
Range(f) == {f[i] : i \in DOMAIN f}
Occurrences(v, ls) == Cardinality({i \in DOMAIN ls : ls[i] = v})

RECURSIVE OccurrencesInBuckets(_, _)
OccurrencesInBuckets(v, d) ==
    IF d = <<>> THEN 0
    ELSE Occurrences(v, d[1].raw) + OccurrencesInBuckets(v, Tail(d))

\* the scanned lines that are not section headers
ContentLines == SelectSeq(lines, LAMBDA l : matched_section(l) = "")

\* the mapping as name/content pairs
Mapping == [k \in 1..Len(sections) |-> <<sections[k].name, sections[k].content>>]

(***************************************************************************)
(* C1  Section partition completeness: for a non-empty input, when         *)
(* _parse_resume_sections returns, every scanned line that is not a        *)
(* section header lies in exactly one bucket of the mapping (counted       *)
(* before the formatter is applied), headers that repeat included.  It is  *)
(* stated for the non-blank lines, which is enough to refute it.           *)
(***************************************************************************)
C1_PartitionComplete ==
    (spc = "done" /\ converters /\ given_text # <<>>)
        => \A v \in Range(ContentLines) \ {<<>>} :
               OccurrencesInBuckets(v, sections) = Occurrences(v, ContentLines)

(***************************************************************************)
(* C5  Header invariant: whenever a non-blank line precedes the first      *)
(* detected section header, the header bucket of the mapping exists and    *)
(* has a non-empty name (its first line).                                  *)
(***************************************************************************)
FirstHeaderIndex ==
    LET hs == {i \in 1..Len(lines) : matched_section(lines[i]) # ""} IN
    IF hs = {} THEN Len(lines) + 1 ELSE Min(hs)

NonBlankBeforeFirstHeader ==
    \E i \in 1..(FirstHeaderIndex - 1) : lines[i] # <<>>

C5_HeaderHasName ==
    (spc = "done" /\ converters /\ NonBlankBeforeFirstHeader)
        => \E k \in 1..Len(sections) :
               sections[k].name = "header" /\ sections[k].content # <<>>

(***************************************************************************)
(* C7  Empty input yields an empty section model: for the empty string     *)
(* the mapping returned has no header entry and no section entries.        *)
(***************************************************************************)
C7_EmptyInputEmptyModel ==
    (spc = "done" /\ converters /\ given_text = <<>>) => sections = <<>>

(***************************************************************************)
(* C8  End-to-end scenario 1: for the scaffold-prefixed input the mapping  *)
(* is header = 'Dr. Jane Doe' / 'AI Engineer' / 'jane@x.com',              *)
(* summary = 'Experienced engineer.' and skills = 'Python, Java'.          *)
(***************************************************************************)
scenario_1_header ==
    <<"D","r","."," ","J","a","n","e"," ","D","o","e","\n",
     "A","I"," ","E","n","g","i","n","e","e","r","\n",
     "j","a","n","e","@","x",".","c","o","m">>
scenario_1_summary ==
    <<"E","x","p","e","r","i","e","n","c","e","d"," ","e","n","g","i","n","e","e","r",".">>
scenario_1_skills ==
    <<"P","y","t","h","o","n",","," ","J","a","v","a">>

C8_Scenario1 ==
    (spc = "done" /\ converters /\ given_text = scenario_1)
        => Mapping = << <<"header", scenario_1_header>>,
                        <<"summary", scenario_1_summary>>,
                        <<"skills", scenario_1_skills>> >>

(***************************************************************************)
(* Claims about the duplicate-block eliminator                             *)
(***************************************************************************)
\* the score fuzz.ratio gave for two raw blocks of the last pool
BlockScore(j, k) ==
    fuzz_ratio(ratio, lower(block_text(content_blocks[j])),
               lower(block_text(content_blocks[k])))

AllPairwiseAtLeast(t) ==
    \A j \in 1..Len(content_blocks) :
        \A k \in 1..Len(content_blocks) : BlockScore(j, k) >= t

(***************************************************************************)
(* C3  Deduplication monotonicity: for the content pool of a tracked       *)
(* project, the number of blocks retained is at most the number of raw     *)
(* blocks, and it is exactly 1 whenever there is a raw block and all raw   *)
(* blocks have pairwise similarity greater than or equal to 80.            *)
(***************************************************************************)
C3_DedupMonotone ==
    /\ Len(unique_blocks) <= Len(content_blocks)
    /\ (content_blocks # <<>> /\ AllPairwiseAtLeast(similarity_threshold))
           => Len(unique_blocks) = 1

TwoNearDuplicates ==
    /\ Len(content_blocks) = 2
    /\ BlockScore(1, 2) > similarity_threshold
    /\ has_bullets(content_blocks[1]) # has_bullets(content_blocks[2])

BulletedOfTwo ==
    IF has_bullets(content_blocks[1]) THEN content_blocks[1]
    ELSE content_blocks[2]

Scenario3Inputs ==
    { join(<<"\n">>, project_lines(lead, bs)) :
        lead \in {<<>>, <<d_blank>>},
        bs \in {<<d_prose, d_dotted>>, <<d_dotted, d_prose>>} }

(***************************************************************************)
(* C9  End-to-end scenario 3: for a tracked project name followed by a     *)
(* prose block and a near-identical block prefixed with the bullet marker  *)
(* (similarity 95), in either order, the text returned by                  *)
(* _remove_duplicate_content_aggressive holds, for that project, the       *)
(* bulleted block only.                                                    *)
(***************************************************************************)
C9_Scenario3 ==
    (/\ dpc = "done"
     /\ dedup_text \in Scenario3Inputs
     /\ \A pair \in DOMAIN ratio : ratio[pair] = 95)
        => SelectSeq(split(dedup_result, <<"\n">>), non_blank)
               = <<d_title, d_dotted>>


(***************************************************************************)
(* Claims about the stages                                                 *)
(***************************************************************************)
StageReturned ==
    \/ cpc = "done"
    \/ hpc = "done"
    \/ dpc = "done"
    \/ spc = "done"

\* the condition of some step of some stage holds
StageCanStep ==
    \/ EnsureProperFormattingGuard
    \/ ParseBeginGuard
    \/ ScanHeaderLineGuard
    \/ ScanContentLineGuard
    \/ ParseReturnGuard
    \/ DedupBeginGuard
    \/ ScanOtherLineGuard
    \/ ScanProjectTitleGuard
    \/ RoleTechLineGuard
    \/ RoleTechEndGuard
    \/ CollectLineGuard
    \/ CollectEndGuard
    \/ DedupReturnGuard
    \/ HeaderBeginGuard
    \/ HeaderNameGuard
    \/ HeaderNoNameGuard
    \/ HeaderOtherLineGuard
    \/ HeaderTitleGuard
    \/ HeaderTitlesEndGuard
    \/ HeaderContactGuard
    \/ HeaderContactsEndGuard
    \/ HeaderScanEndGuard
    \/ HeaderRestLineGuard
    \/ HeaderReturnGuard
    \/ CleanEmptyGuard
    \/ CleanJammingGuard
    \/ CleanBasicGuard
    \/ CleanTokenizerGuard
    \/ CleanStructureGuard
    \/ CleanBulletsGuard
    \/ SpacingBeginGuard
    \/ SpacingStepGuard
    \/ SpacingEndGuard
    \/ CleanFinalGuard

\* the text the running stage was handed
StageInput ==
    IF cpc # "idle" THEN clean_source
    ELSE IF hpc # "idle" THEN header_source
    ELSE IF dpc # "idle" THEN dedup_text
    ELSE given_text

\* a number of steps linear in the number of lines of the input
StepBound == 3 * Len(split(StageInput, <<"\n">>)) + 10

(***************************************************************************)
(* C6  Totality: whatever the input text (empty, blank only, without a     *)
(* name line, without a section header, without a tracked project), the    *)
(* stage that runs - clean_and_structure_text, _restructure_header,        *)
(* _remove_duplicate_content_aggressive, or _parse_resume_sections with    *)
(* _clean_section_content - takes a number of steps bounded by the number  *)
(* of lines of the input, and as long as it has not returned it can take   *)
(* its next step: it is never left without a next step, and looking up a   *)
(* line past the end of the list would stop the check with an error.       *)
(***************************************************************************)
C6_Totality ==
    /\ steps <= StepBound
    /\ ~StageReturned => StageCanStep

\* _restructure_header has returned for a text with a blank line after the
\* name, the case in which its inner loops skip lines
C6_Witness ==
    /\ hpc = "done"
    /\ header_source = join(<<"\n">>, <<t_name, t_blank, t_contact>>)

(***************************************************************************)
(* C11  Pipe repair example: _fix_jamming_issues maps 'Engineer|555' to    *)
(* 'Engineer | 555' (a pipe jammed between a word and a number gets a      *)
(* space on each side).                                                    *)
(***************************************************************************)
ex_pipe_out == <<"E","n","g","i","n","e","e","r"," ","|"," ","5","5","5">>

C11_PipeExample ==
    (rkind = "text_processor" /\ rin = ex_pipe_in /\ Len(rout) >= 1)
        => rout[1] = ex_pipe_out

(***************************************************************************)
(* C12  Scaffold stripper: when the text contains the preamble marker, the *)
(* prefix removal returns the text that follows an occurrence of the       *)
(* marker, cut before the trailing marker when present (with or without    *)
(* the words 'that will generate perfect files:' that end the preamble     *)
(* sentence, and up to surrounding whitespace); when the marker is absent  *)
(* the text is returned unchanged.                                         *)
(***************************************************************************)
MarkerPositions(text) ==
    {i \in 1..(Len(text) - Len(scaffold_marker) + 1) :
        SubSeq(text, i, i + Len(scaffold_marker) - 1) = scaffold_marker}

FollowingMarker(text, i) ==
    SubSeq(text, i + Len(scaffold_marker), Len(text))

WithoutFilesPhrase(t) ==
    IF startswith(t, s_files) THEN SubSeq(t, Len(s_files) + 1, Len(t)) ELSE t

BeforeTrailingMarker(t) ==
    IF contains(t, trailing_marker)
    THEN SubSeq(t, 1, find(t, trailing_marker) - 1)
    ELSE t

StrippedTexts(text) ==
    UNION {{strip(BeforeTrailingMarker(FollowingMarker(text, i))),
            strip(BeforeTrailingMarker(
                      WithoutFilesPhrase(FollowingMarker(text, i))))} :
           i \in MarkerPositions(text)}

C12_ScaffoldStripper ==
    (rkind \in StripKinds /\ Len(rout) >= 1)
        => IF contains(rin, scaffold_marker)
           THEN rout[1] \in StrippedTexts(rin)
           ELSE rout[1] = rin

(***************************************************************************)
(* C13  Header size invariant: when _restructure_header has found the name *)
(* and emitted the restructured header (name, joined titles, joined        *)
(* contacts, spacing line), the lines emitted so far, which are all the    *)
(* lines that precede the first section header, hold at most 3 non-blank   *)
(* lines.                                                                  *)
(***************************************************************************)
HeaderEmitted ==
    /\ hpc = "scan"
    /\ header_processed
    /\ restructured_lines # <<>>
    /\ restructured_lines[Len(restructured_lines)] = <<>>

NonBlankCount(ls) == Cardinality({i \in DOMAIN ls : strip(ls[i]) # <<>>})

C13_HeaderAtMostThreeLines ==
    HeaderEmitted => NonBlankCount(restructured_lines) <= 3

(***************************************************************************)
(* C14  Header no-op: when no name line is found among the first lines,    *)
(* _restructure_header returns its input text unchanged, character for     *)
(* character.                                                              *)
(***************************************************************************)
\* the line at index j (counted from 0) is taken as the name line: it is
\* scanned before any section header and holds 'Dr.'
NameFoundAt(ls, j) ==
    /\ is_name_candidate(j, strip(ls[j + 1]))
    /\ contains(clean_name(strip(ls[j + 1])), doctor)
    /\ \A k \in 0..(j - 1) :
           is_name_candidate(k, strip(ls[k + 1]))
               \/ ~is_section_start(strip(ls[k + 1]))

NameFound(text) ==
    LET ls == split(text, <<"\n">>)
    IN  \E j \in 0..(Len(ls) - 1) : NameFoundAt(ls, j)

C14_HeaderNoOp ==
    (hpc = "done" /\ ~NameFound(header_source))
        => header_result = header_source

\* the blocks of the lines _deduplicate_project_content returned for the
\* last pool
OutputBlocks == raw_blocks(deduplicated_content)

FirstSeen(block) ==
    Min({i \in 1..Len(content_blocks) : content_blocks[i] = block})

\* every block of the output is one of the raw blocks, whole
BlocksKeptWhole ==
    \A k \in 1..Len(OutputBlocks) :
        \E i \in 1..Len(content_blocks) : OutputBlocks[k] = content_blocks[i]

(***************************************************************************)
(* C15 as stated  Dedup order: the blocks of the output appear in the      *)
(* order in which those same blocks were first seen in the input, and      *)
(* every block of the output is a raw block as a whole.                    *)
(***************************************************************************)
C15_FirstSeenOrder ==
    /\ BlocksKeptWhole
    /\ \A j \in 1..Len(OutputBlocks) : \A k \in 1..Len(OutputBlocks) :
           j < k => FirstSeen(OutputBlocks[j]) < FirstSeen(OutputBlocks[k])

\* the block at position q of the input took the place of the block at
\* position p: a later, bulleted near-duplicate of a block without bullets
ReplacedInPlace(p, q) ==
    /\ p < q
    /\ has_bullets(content_blocks[q])
    /\ ~has_bullets(content_blocks[p])
    /\ BlockScore(q, p) > similarity_threshold

(***************************************************************************)
(* C15  Dedup order: the blocks of the output stand at places that were    *)
(* opened in input order: there are increasing input positions, one per    *)
(* output block, such that the output block is the raw block at that       *)
(* position or the bulleted near-duplicate that replaced it in place; and  *)
(* every block of the output is a raw block as a whole.                    *)
(***************************************************************************)
C15_PlaceOrder ==
    /\ BlocksKeptWhole
    /\ \E p \in [1..Len(OutputBlocks) -> 1..Len(content_blocks)] :
          /\ \A j \in DOMAIN p : \A k \in DOMAIN p : j < k => p[j] < p[k]
          /\ \A k \in DOMAIN p :
                \/ OutputBlocks[k] = content_blocks[p[k]]
                \/ \E q \in 1..Len(content_blocks) :
                      /\ ReplacedInPlace(p[k], q)
                      /\ OutputBlocks[k] = content_blocks[q]

C15_Witness ==
    /\ content_blocks = << <<d_prose>>, <<d_dotted>>, <<d_star>> >>
    /\ OutputBlocks = << <<d_star>>, <<d_dotted>> >>

(***************************************************************************)
(* C16  Unknown section headers: for a text with the known section SKILLS  *)
(* followed by the unknown sections HOBBIES and LANGUAGES, each with one   *)
(* content line, the mapping holds the content line of each unknown        *)
(* section in a bucket of its own, and the skills bucket holds only the    *)
(* skills line.                                                            *)
(***************************************************************************)
C16_UnknownSectionsApart ==
    (spc = "done" /\ given_text = unknown_sections)
        => /\ \E i \in 1..Len(sections) : \E j \in 1..Len(sections) :
                 /\ i # j
                 /\ sections[i].raw = <<u_chess>>
                 /\ sections[j].raw = <<u_igbo>>
           /\ \E k \in 1..Len(sections) :
                 /\ sections[k].name = "skills"
                 /\ sections[k].raw = <<u_python>>

(***************************************************************************)
(* C17  Section order: when _parse_resume_sections returns, the entries of *)
(* the mapping are ordered by the position of the first header line of     *)
(* each section in the scanned lines, the header bucket first.             *)
(***************************************************************************)
FirstHeaderLine(name) ==
    IF name = "header" THEN 0
    ELSE Min({i \in 1..Len(lines) : matched_section(lines[i]) = name})

C17_SectionOrder ==
    spc = "done"
        => \A j \in 1..Len(sections) : \A k \in 1..Len(sections) :
               j < k => FirstHeaderLine(sections[j].name)
                            < FirstHeaderLine(sections[k].name)

(***************************************************************************)
(* C18  Formatter final pass: for every section type and every list of     *)
(* content lines, the content _clean_section_content returns is empty or   *)
(* has no two consecutive blank lines, no leading blank line and no        *)
(* trailing blank line.                                                    *)
(***************************************************************************)
WellSpaced(text) ==
    LET ls == split(text, <<"\n">>) IN
        \/ text = <<>>
        \/ /\ strip(ls[1]) # <<>>
           /\ strip(ls[Len(ls)]) # <<>>
           /\ \A i \in 1..(Len(ls) - 1) :
                  strip(ls[i]) # <<>> \/ strip(ls[i + 1]) # <<>>

C18_FormatterFinalPass ==
    spc = "cleaned" => \A k \in 1..Len(sections) : WellSpaced(sections[k].content)

\* a role line gets a blank line after it, which the final pass removes at
\* the end of the content
C18_Witness ==
    /\ spc = "cleaned"
    /\ current_section = "experience"
    /\ current_content = <<f_role, f_blank, f_role>>
    /\ sections[1].content = f_role \o <<"\n", "\n">> \o f_role

(***************************************************************************)
(* C19  Header pass-through: when _restructure_header has found the name   *)
(* and returned, every non-blank input line that was not taken as the      *)
(* name, as a title or as a contact item is a line of the output (compared *)
(* up to surrounding whitespace).                                          *)
(***************************************************************************)
TakenForHeader(line) ==
    \/ (<<"#", " ">> \o clean_name(line)) \in Range(restructured_lines)
    \/ clean_markup(line) \in Range(job_titles)
    \/ clean_markup(line) \in Range(contact_items)

C19_HeaderPassThrough ==
    (hpc = "done" /\ NameFound(header_source))
        => \A i \in 1..Len(hlines) :
               (strip(hlines[i]) # <<>> /\ ~TakenForHeader(strip(hlines[i])))
                   => \E k \in 1..Len(restructured_lines) :
                          strip(restructured_lines[k]) = strip(hlines[i])

\* no two consecutive characters of s are both in chars
NoRuns(s, chars) ==
    \A i \in 1..(Len(s) - 1) : ~(s[i] \in chars /\ s[i + 1] \in chars)

\* the words of s: what lies between spaces
Words(s) == SelectSeq(split(s, <<" ">>), LAMBDA w : w # <<>>)

\* the collapse joined no two words that the earlier rules left apart
InsertedSpacesKept ==
    Words(rout[1]) = Words(spacing_rules(rin))

(***************************************************************************)
(* C20 as stated  Whitespace collapse: the output of _fix_jamming_issues   *)
(* has no run of two or more consecutive spaces or tabs, and the spaces    *)
(* inserted by the earlier rules are still present.                        *)
(***************************************************************************)
C20_NoWhitespaceRuns ==
    (rkind = "text_processor" /\ Len(rout) >= 1)
        => /\ NoRuns(rout[1], {" ", "\t"})
           /\ InsertedSpacesKept

(***************************************************************************)
(* C20  Whitespace collapse: the output of _fix_jamming_issues has no run  *)
(* of two or more consecutive spaces (tabs are left as they are), and the  *)
(* spaces inserted by the earlier rules are still present.                 *)
(***************************************************************************)
C20_NoSpaceRuns ==
    (rkind = "text_processor" /\ Len(rout) >= 1)
        => /\ NoRuns(rout[1], {" "})
           /\ InsertedSpacesKept

C20_Witness ==
    /\ rkind = "text_processor"
    /\ rin = ex_spaced_in
    /\ Len(rout) >= 1
    /\ rout[1] = <<"P","y","t","h","o","n",","," ","J","a","v","a"," ","S","Q","L">>

(***************************************************************************)
(* C21  Experience bullets: when every content line of an experience       *)
(* section starts with '•', '-' or '*', _clean_section_content returns     *)
(* exactly those lines, one per line, with no blank line added.            *)
(***************************************************************************)
IsBulletLine(line) ==
    line # <<>> /\ line[1] \in {"bullet", "-", "*"}

C21_ExperienceBullets ==
    (spc = "cleaned" /\ current_section = "experience"
        /\ current_content # <<>>
        /\ \A i \in 1..Len(current_content) : IsBulletLine(current_content[i]))
        => sections[1].content = join(<<"\n">>, current_content)

(***************************************************************************)
(* C22  Summary formatting: the content _clean_section_content returns for *)
(* a summary section holds no line of 10 characters or fewer; of two lines *)
(* that follow one another in it the first ends in '.', '!' or '?'; and,   *)
(* when the input has no blank line, a line that ends in '.', '!' or '?'   *)
(* is not followed by a blank line.                                        *)
(***************************************************************************)
SentenceFinal == {".", "!", "?"}

EndsSentence(line) == line # <<>> /\ line[Len(line)] \in SentenceFinal

SummaryLines == split(sections[1].content, <<"\n">>)

C22_SummaryFormatting ==
    (spc = "cleaned" /\ current_section = "summary")
        => /\ \A i \in 1..Len(SummaryLines) :
                  SummaryLines[i] = <<>> \/ Len(SummaryLines[i]) > 10
           /\ \A i \in 1..(Len(SummaryLines) - 1) :
                  (SummaryLines[i] # <<>> /\ SummaryLines[i + 1] # <<>>)
                      => EndsSentence(SummaryLines[i])
           /\ (\A k \in 1..Len(current_content) : strip(current_content[k]) # <<>>)
                  => \A i \in 1..(Len(SummaryLines) - 1) :
                         EndsSentence(SummaryLines[i])
                             => SummaryLines[i + 1] # <<>>

(***************************************************************************)
(* C23  Comma fix leaves words intact: for a text made of two alphabetic   *)
(* words joined by a comma, such as 'Python,JavaScript',                   *)
(* _fix_jamming_issues returns the first word, ', ' and the second word.   *)
(***************************************************************************)
CommaAt(text) == find(text, <<",">>)

TwoWordsJoinedByComma(text) ==
    /\ CommaAt(text) > 1
    /\ CommaAt(text) < Len(text)
    /\ \A i \in 1..Len(text) : i = CommaAt(text) \/ text[i] \in Letter

C23_CommaFixKeepsWords ==
    (rkind = "text_processor" /\ Len(rout) >= 1 /\ TwoWordsJoinedByComma(rin))
        => rout[1] = SubSeq(rin, 1, CommaAt(rin)) \o <<" ">>
                         \o SubSeq(rin, CommaAt(rin) + 1, Len(rin))

(***************************************************************************)
(* C24  Agent workflow termination: whatever the language-model calls      *)
(* return or raise, process_resume returns, the supervisor having routed   *)
(* to FINISH after at most 12 entries, each agent having run at most 11    *)
(* times.                                                                  *)
(***************************************************************************)
EntriesBounded ==
    /\ entries["supervisor"] <= max_iterations + 2
    /\ \A n \in Nodes \ {"supervisor"} : entries[n] <= max_iterations + 1

C24_Termination ==
    [](EntriesBounded) /\ <>(apc = "returned" /\ current_agent = "FINISH")

\* the longest run: the content agent's model answers "" every time
C24_Witness ==
    /\ apc = "returned"
    /\ current_agent = "FINISH"
    /\ entries["supervisor"] = max_iterations + 2
    /\ entries["content_agent"] = max_iterations + 1


(***************************************************************************)
(* C28  Agent result is never empty: process_resume called with a          *)
(* non-empty original_resume returns a non-empty tailored_resume, and a    *)
(* result with status success, partial_success or completed is returned    *)
(* only after content_tailored, formatting_applied and document_ready have *)
(* all been set to non-empty text.                                         *)
(***************************************************************************)
AcceptedStatuses == {"success", "partial_success", "completed"}

C28_ResultNeverEmpty ==
    apc = "returned" =>
        /\ original_resume # "" => agent_result.tailored_resume # ""
        /\ agent_result.status \in AcceptedStatuses =>
               /\ content_tailored # ""
               /\ formatting_applied # ""
               /\ document_ready # ""

(***************************************************************************)
(* C29  Agent ordering: the formatting agent is entered only with          *)
(* content_tailored non-empty, the document agent only with                *)
(* formatting_applied non-empty, no agent is entered while the field it    *)
(* produces is non-empty, and every agent step hands control back to the   *)
(* supervisor.                                                             *)
(***************************************************************************)
AgentNodes == Nodes \ {"supervisor"}

AgentOrderingStep ==
    /\ apc' = "content_agent" => content_tailored' = ""
    /\ apc' = "formatting_agent" =>
           content_tailored' # "" /\ formatting_applied' = ""
    /\ apc' = "document_agent" =>
           formatting_applied' # "" /\ document_ready' = ""
    /\ apc \in AgentNodes => apc' = "supervisor"

C29_AgentOrdering == [][AgentOrderingStep]_vars

\* all three agents have run, the document agent more than once
C29_Witness ==
    /\ apc = "supervisor"
    /\ entries["content_agent"] >= 1
    /\ entries["formatting_agent"] >= 1
    /\ entries["document_agent"] >= 2
    /\ document_ready # ""


(***************************************************************************)
(* C25  Retained blocks are pairwise distinct: of the blocks               *)
(* _deduplicate_project_content retains for one project, no two have a     *)
(* similarity above 80, also after a prose block has been replaced by its  *)
(* bulleted variant.                                                       *)
(***************************************************************************)
similar_blocks(a, b) ==
    fuzz_ratio(ratio, lower(block_text(a)), lower(block_text(b)))
        > similarity_threshold

C25_RetainedDistinct ==
    \A i \in 1..Len(unique_blocks) : \A j \in 1..Len(unique_blocks) :
        i < j => ~similar_blocks(unique_blocks[i], unique_blocks[j])


(***************************************************************************)
(* C26  Dedup removes only duplicates: every non-blank input line of       *)
(* _remove_duplicate_content_aggressive that is not part of a block judged *)
(* a duplicate of another block appears in the output, the lines directly  *)
(* after a tracked project title included.  Stated for the runs in which   *)
(* no pair of distinct texts scored above 80 and for the lines that occur  *)
(* once in the input, so that no block holding them was judged a           *)
(* duplicate.                                                              *)
(***************************************************************************)
NoPairJudgedSimilar ==
    \A pair \in DOMAIN ratio : ratio[pair] <= similarity_threshold

OccursOnce(k) ==
    \A j \in 1..Len(dlines) : j # k => strip(dlines[j]) # strip(dlines[k])

InOutput(line) ==
    \E j \in 1..Len(processed_lines) : strip(processed_lines[j]) = strip(line)

C26_OnlyDuplicatesRemoved ==
    (dpc = "done" /\ NoPairJudgedSimilar) =>
        \A k \in 1..Len(dlines) :
            (non_blank(dlines[k]) /\ OccursOnce(k)) => InOutput(dlines[k])


(***************************************************************************)
(* C27  Formatting fallback chain: when the markdown conversion of a       *)
(* non-empty text fails with an internal error, _ensure_proper_formatting  *)
(* returns the text cleaned by clean_and_structure_text (by                *)
(* _basic_formatting_fixes when there is no text processor), never the     *)
(* raw input.  Stated for the texts of up to MaxLines vocabulary lines.    *)
(***************************************************************************)
LongScenarios == {scenario_1, unknown_sections, repeated_sections}

\* the conversion meets a line that is no header: _process_inline_formatting
\* raises
conversion_fails(text) ==
    LET ls == split(strip_prefix_converter(text), <<"\n">>)
    IN  \E i \in 1..Len(ls) :
            strip(ls[i]) # <<>> /\ header_level(strip(ls[i])) = 0

\* text is what clean_and_structure_text returns for given_text, pass by pass
is_cleaned_text(text) ==
    \E t1 \in {_fix_jamming_issues(given_text)} :
    \E t2 \in {_basic_text_cleaning(t1)} :
    \E t3 \in {_structure_sections(_process_with_hf_tokenizer(t2))} :
    \E t4 \in {_format_bullet_points_enhanced(t3)} :
    \E t5 \in {_fix_paragraph_spacing_enhanced(t4)} :
        text = _final_cleanup(t5)

C27_FallbackChain ==
    (/\ spc # "format"
     /\ given_text # <<>>
     /\ given_text \notin LongScenarios
     /\ conversion_fails(given_text)) =>
        IF converters
        THEN is_cleaned_text(resume_text)
        ELSE resume_text = _basic_formatting_fixes(given_text)


(***************************************************************************)
(* C30  Each section is rendered exactly once: generate_docx and           *)
(* generate_pdf put every section of the mapping with non-empty content    *)
(* into the document exactly once, the four fixed sections (summary,       *)
(* skills, experience, education, in this order) before every other        *)
(* section, the header only through the header renderer, and they leave    *)
(* the mapping as _parse_resume_sections returned it.                      *)
(***************************************************************************)
FixedNames == {section_order[k] : k \in 1..Len(section_order)}

FixedRank(section_name) ==
    CHOOSE k \in 1..Len(section_order) : section_order[k] = section_name

RenderedAt(section_name) ==
    {k \in 1..Len(story) :
        story[k].via = "section" /\ story[k].section = section_name}

RenderStates == {"done", "fixed_sections", "additional_sections", "saved"}

EachSectionOnce ==
    \A i \in 1..Len(sections) :
        IF sections[i].name # "header" /\ sections[i].content # <<>>
        THEN /\ Cardinality(RenderedAt(sections[i].name)) = 1
             /\ \A k \in RenderedAt(sections[i].name) :
                    story[k].content = sections[i].content
        ELSE RenderedAt(sections[i].name) = {}

NothingElseRendered ==
    \A k \in 1..Len(story) :
        IF story[k].via = "header"
        THEN k = 1 /\ story[k].content = sections_get(sections, "header")
        ELSE \E i \in 1..Len(sections) : sections[i].name = story[k].section

FixedSectionsFirst ==
    \A j \in 1..Len(story) : \A k \in 1..Len(story) :
        (j < k /\ story[j].via = "section" /\ story[k].via = "section"
               /\ story[k].section \in FixedNames) =>
            /\ story[j].section \in FixedNames
            /\ FixedRank(story[j].section) < FixedRank(story[k].section)

C30_EachSectionOnce ==
    /\ spc \in RenderStates => sections = _parse_resume_sections(resume_text)
    /\ spc = "saved" =>
           EachSectionOnce /\ NothingElseRendered /\ FixedSectionsFirst

\* the mapping holds projects before education and skills; the document
\* holds the header, then skills, education and projects
C30_Witness ==
    /\ spc = "saved"
    /\ Len(sections) = 4
    /\ sections[2].name = "projects"
    /\ sections[4].name = "skills"
    /\ Len(story) = 4
    /\ story[1].via = "header"
    /\ story[2].section = "skills"
    /\ story[3].section = "education"
    /\ story[4].section = "projects"


====
